---- MODULE Spec2Model ----
(***************************************************************************)
(* The local service supervisor of the setup-center desktop application   *)
(* (apps/setup-center/src-tauri/src/main.rs): the Registry (pid files),   *)
(* the StartLock (lock files), the single ManagedHandle MANAGED_CHILD,    *)
(* the commands openakita_service_start / _status / _stop, the startup    *)
(* reconciliation, and the operating system's process table they act on.  *)
(*                                                                         *)
(* Every command is split into one step per access to shared state (the   *)
(* mutex-guarded handle, a file of the run directory, the process table), *)
(* so that the steps of concurrent commands interleave as their system    *)
(* calls do.                                                               *)
(***************************************************************************)
EXTENDS Integers, Sequences, FiniteSets, TLC

VARIABLES
    now,        \* the wall clock, epoch seconds (now_epoch_secs)
    proc,       \* the operating system's process table, by pid
    pidfile,    \* run/openakita-<ws>.pid, by workspace: the Registry
    lock,       \* run/openakita-<ws>.lock exists, by workspace: the StartLock
    handle,     \* MANAGED_CHILD: {} is None, {[ws, pid]} is Some(ManagedProcess)
    mutex,      \* the holder of MANAGED_CHILD's mutex: {} or {thread}
    phase,      \* the supervisor: "boot", "reconcile", "ready"
    boots,      \* how many times the supervisor has started
    rec,        \* startup_reconcile's position and locals
    th,         \* each thread's command in flight: position and locals
    fin,        \* input of the specifications of single functions
    fout        \* state and output of the specifications of single functions

vars == <<now, proc, pidfile, lock, handle, mutex, phase, boots, rec, th, fin, fout>>

----------------------------------------------------------------------------
(* Bounds of the model *)

\* pids the operating system hands out are 1..MaxPid (a freed pid is reused)
MaxPid == 2
\* the clock stops advancing at MaxTime
MaxTime == 7
\* the supervisor starts at most MaxBoots times (one start, then crashes)
MaxBoots == 2
\* the pids written into a Registry file by hand are 1..MaxBare
MaxBare == 12

(* Program constants *)

\* is_pid_file_valid: diff <= 5
IdentityTolerance == 5
\* graceful_stop_pid: for _ in 0..25
GracefulPolls == 25
\* graceful_stop_pid: for _ in 0..10
KillPolls == 10

Pids == 1..MaxPid
\* the workspace ids: two plain ones, and one that starts with the prefix of
\* the Registry files' names (create_workspace accepts any id that is not empty)
Workspaces == {"a", "b", "openakita-a"}
Threads == {1, 2}

----------------------------------------------------------------------------
(* The Registry file: its content and its two parsers *)

Digits == {"0", "1", "2", "3", "4", "5", "6", "7", "8", "9"}
Blank == {" ", "\n"}

\* the value of one decimal digit (char::to_digit)
DigitVal(c) ==
    CASE c = "0" -> 0 [] c = "1" -> 1 [] c = "2" -> 2 [] c = "3" -> 3
      [] c = "4" -> 4 [] c = "5" -> 5 [] c = "6" -> 6 [] c = "7" -> 7
      [] c = "8" -> 8 [] c = "9" -> 9

\* the decimal text of a natural number (u32's Display, as serde_json prints it)
RECURSIVE to_string(_)
to_string(n) ==
    LET d == n % 10
        c == CHOOSE x \in Digits : DigitVal(x) = d
    IN  IF n < 10 THEN <<c>> ELSE Append(to_string(n \div 10), c)

\* str::trim: no leading and no trailing whitespace
RECURSIVE trim(_)
trim(s) ==
    IF s = <<>> THEN s
    ELSE IF Head(s) \in Blank THEN trim(Tail(s))
    ELSE IF s[Len(s)] \in Blank THEN trim(SubSeq(s, 1, Len(s) - 1))
    ELSE s

\* the digits of s folded to a number, most significant first
RECURSIVE fold_digits(_, _)
fold_digits(s, acc) ==
    IF s = <<>> THEN acc ELSE fold_digits(Tail(s), acc * 10 + DigitVal(Head(s)))

\* str::parse::<u32>: an optional "+", then one or more digits; {} is Err
parse_u32(s) ==
    LET body == IF s # <<>> /\ Head(s) = "+" THEN Tail(s) ELSE s
    IN  IF body # <<>> /\ \A i \in 1..Len(body) : body[i] \in Digits
        THEN {fold_digits(body, 0)}
        ELSE {}

\* A file of the run directory.  k = "absent": no file.  k = "text": a file
\* that holds no JSON object, txt is its characters.  k = "json": a JSON
\* object; pid and at are {} when the key is missing or holds no unsigned
\* integer, by is Missing when the key started_by is missing.
Missing == "<missing>"
Absent == [k |-> "absent", txt |-> <<>>, pid |-> {}, by |-> Missing, at |-> {}]
TextFile(s) == [k |-> "text", txt |-> s, pid |-> {}, by |-> Missing, at |-> {}]
JsonFile(p, b, a) == [k |-> "json", txt |-> <<>>, pid |-> p, by |-> b, at |-> a]

\* struct PidFileData
PidFileData(p, b, a) == [pid |-> p, started_by |-> b, started_at |-> a]

\* #[serde(default = "default_started_by")]
default_started_by == "tauri"

\* serde_json::from_str::<PidFileData>: {} is Err.  pid has no default;
\* started_by and started_at have.  A number alone is no struct.
from_json(f) ==
    IF f.k = "json" /\ f.pid # {}
    THEN {PidFileData(CHOOSE p \in f.pid : TRUE,
                      IF f.by = Missing THEN default_started_by ELSE f.by,
                      IF f.at = {} THEN 0 ELSE CHOOSE a \in f.at : TRUE)}
    ELSE {}

\* read_pid_file without the branch for the legacy format: JSON or nothing
read_pid_file_json(f) ==
    LET json == from_json(f)
    IN  IF json # {} /\ (CHOOSE d \in json : TRUE).pid > 0 THEN json ELSE {}

\* read_pid_file without the two tests pid > 0
read_pid_file_any(f) ==
    LET json == from_json(f)
        bare == IF f.k = "text" THEN parse_u32(trim(f.txt)) ELSE {}
    IN  IF f.k = "absent" THEN {}
        ELSE IF json # {} THEN json
        ELSE IF bare # {} THEN {PidFileData(CHOOSE n \in bare : TRUE, "tauri", 0)}
        ELSE {}

\* read_pid_file: {} is None, {data} is Some(data)
read_pid_file(f) ==
    LET json == from_json(f)
        bare == IF f.k = "text" THEN parse_u32(trim(f.txt)) ELSE {}
    IN  IF f.k = "absent" THEN {}
        ELSE IF json # {} /\ (CHOOSE d \in json : TRUE).pid > 0 THEN json
        ELSE IF bare # {} /\ (CHOOSE n \in bare : TRUE) > 0
             THEN {PidFileData(CHOOSE n \in bare : TRUE, "tauri", 0)}
        ELSE {}

\* what write_pid_file leaves in the file once fs::write has completed
pid_file_json(p, by, t) == JsonFile({p}, by, {t})

\* fs::write opens the file with truncation before it writes the bytes: the
\* file is empty in between
Truncated == TextFile(<<>>)

----------------------------------------------------------------------------
(* The operating system's processes *)

\* st: "free" (no such process), "run", or "zombie" (exited, not yet waited
\* for by the supervisor that spawned it: the pid is still taken).
\* ctime: creation time.  ws: the workspace a backend serves, "none" for an
\* unrelated process.  child: spawned by the running supervisor and not yet
\* waited for.
NoProc == [st |-> "free", ctime |-> 0, ws |-> "none", child |-> FALSE]
Process(t, w, c) == [st |-> "run", ctime |-> t, ws |-> w, child |-> c]

\* the process is executing (a zombie has exited)
Alive(p) == p \in Pids /\ proc[p].st = "run"

\* is_pid_running: kill -0 / OpenProcess succeed for any pid that is taken,
\* a zombie included
is_pid_running(p) == p # 0 /\ p \in Pids /\ proc[p].st # "free"

\* get_process_create_time: the results a call can give, {} being None.
\* None whenever the platform cannot tell (no /proc, OpenProcess refused).
get_process_create_time(p) ==
    IF p \in Pids /\ proc[p].st # "free" THEN {{}, {proc[p].ctime}} ELSE {{}}

\* is_pid_file_valid without the comparison of times: liveness alone
is_pid_file_valid_alive(data, actual_create) == is_pid_running(data.pid)

\* is_pid_file_valid that accepts a difference below the tolerance only
is_pid_file_valid_below(data, actual_create) ==
    IF ~is_pid_running(data.pid) THEN FALSE
    ELSE IF data.started_at = 0 THEN TRUE
    ELSE IF actual_create # {}
         THEN LET c == CHOOSE x \in actual_create : TRUE
                  diff == IF data.started_at > c THEN data.started_at - c
                          ELSE c - data.started_at
              IN  diff < IdentityTolerance
    ELSE TRUE

\* is_pid_file_valid, given what get_process_create_time returned
is_pid_file_valid(data, actual_create) ==
    IF ~is_pid_running(data.pid) THEN FALSE
    ELSE IF data.started_at = 0 THEN TRUE
    ELSE IF actual_create # {}
         THEN LET c == CHOOSE x \in actual_create : TRUE
                  diff == IF data.started_at > c THEN data.started_at - c
                          ELSE c - data.started_at
              IN  diff <= IdentityTolerance
    ELSE TRUE

\* the process table after pid p stops executing: a child that nobody has
\* waited for stays as a zombie, any other process is gone
Exited(p) ==
    [proc EXCEPT ![p] = IF proc[p].child THEN [proc[p] EXCEPT !.st = "zombie"]
                        ELSE NoProc]

\* the process table after the supervisor drops the std::process::Child of
\* pid p without waiting for it.  keep = TRUE: the process stays the
\* supervisor's child (Unix: a zombie once it exits).  keep = FALSE: the
\* dropped handle was the last reference (Windows: nothing lingers).
DropChild(pr, p, keep) ==
    IF keep THEN pr
    ELSE [pr EXCEPT ![p] = IF pr[p].st = "zombie" THEN NoProc
                           ELSE [pr[p] EXCEPT !.child = FALSE]]

----------------------------------------------------------------------------
(* A command in flight *)

\* pc: the next step.  op: the command.  ws: its workspace_id.  pid: its
\* local pid (the spawned child, or the pid to stop).  data: what
\* read_pid_file returned.  res, rpid: the Result it returns and the pid in
\* it.  held: its LockGuard is alive.  acq: it took the lock.  rel: the
\* calls of release_start_lock it made.  spawned: cmd.spawn() succeeded.
\* acts: the requests and signals it sent.  api_ok, i, managed: locals of
\* openakita_service_stop / graceful_stop_pid.  entries: the entries of
\* list_service_pids the quit handler has still to go through.
\* Kept for the properties: tdead: the process it was told to stop has
\* stopped executing.  mism: the record it read named a live pid of another
\* creation time.  rival: another start of the same workspace, in flight
\* while this one is, has spawned.  first (of a start): no command ran
\* before this one since the supervisor started.  after (of a stop): the
\* thread's last command was a stop of the same workspace that returned Ok.
\* nothing (of a stop): when it was called the workspace had no handle with
\* a live child and no record.
Fresh(o, w) ==
    [pc |-> "idle", op |-> o, ws |-> w, pid |-> 0, data |-> {},
     res |-> "", rpid |-> 0, held |-> FALSE, acq |-> FALSE, rel |-> 0,
     spawned |-> FALSE, acts |-> {}, api_ok |-> FALSE, i |-> 0,
     managed |-> FALSE, entries |-> {}, tdead |-> FALSE, mism |-> FALSE, rival |-> FALSE,
     first |-> FALSE, after |-> FALSE, nothing |-> FALSE]

Idle(t) == th[t].pc = "idle"
TheData(r) == CHOOSE d \in r.data : TRUE
TheHandle == CHOOSE h \in handle : TRUE
ManagedFor(w) == handle # {} /\ TheHandle.ws = w

\* thread t is called with command o for workspace w
Call(t, o, w) ==
    [Fresh(o, w) EXCEPT
        !.first = o = "start" /\ \A u \in Threads : th[u].op = "none",
        !.after = o = "stop" /\ th[t].op = "stop" /\ th[t].ws = w
                             /\ th[t].res = "not_running",
        !.nothing = o = "stop" /\ ~(ManagedFor(w) /\ Alive(TheHandle.pid))
                               /\ read_pid_file(pidfile[w]) = {},
        !.rival = o = "start" /\ \E u \in Threads \ {t} :
                     /\ th[u].op = "start" /\ th[u].pc # "idle"
                     /\ th[u].ws = w /\ th[u].spawned]

\* the command returns result (and pid p in Ok(ServiceStatus)): its locals are gone
Return(r, result, p) ==
    [Fresh(r.op, r.ws) EXCEPT !.res = result, !.rpid = p, !.spawned = r.spawned,
                              !.acq = r.acq, !.rel = r.rel, !.mism = r.mism,
                              !.tdead = r.tdead,
                              !.first = r.first, !.after = r.after,
                              !.nothing = r.nothing]

\* the start time differs from the creation time by more than the tolerance
Differs(started_at, c) ==
    started_at - c > IdentityTolerance \/ c - started_at > IdentityTolerance

\* the live pid of data was created more than the tolerance away from
\* started_at, and get_process_create_time returned that creation time
ReusedSeen(data, c) ==
    /\ Alive(data.pid)
    /\ data.started_at # 0
    /\ c # {}
    /\ Differs(data.started_at, CHOOSE x \in c : TRUE)

\* every command in flight that is stopping pid p learns that p has exited
MarkDead(thr, p) ==
    [t \in Threads |->
        IF thr[t].op = "stop" /\ thr[t].pc # "idle" /\ thr[t].pid = p
        THEN [thr[t] EXCEPT !.tdead = TRUE] ELSE thr[t]]

----------------------------------------------------------------------------
(* The StartLock *)

\* try_acquire_start_lock that opens with create instead of create_new: an
\* existing file is opened as well
try_acquire_start_lock_create(w) == TRUE

\* try_acquire_start_lock: create_new fails when the file exists
try_acquire_start_lock(w) == ~lock[w]

\* release_start_lock whose remove_file does nothing
release_start_lock_noop(w) == lock

\* release_start_lock: remove_file, whoever created the file
release_start_lock(w) == [lock EXCEPT ![w] = FALSE]

----------------------------------------------------------------------------
(* openakita_service_start *)

\* fs::create_dir_all(run_dir()) fails: Err before anything else
StartRunDirFails(t, w) ==
    /\ phase = "ready" /\ Idle(t)
    /\ th' = [th EXCEPT ![t] = Return(Call(t, "start", w), "RunDirFailed", 0)]
    /\ UNCHANGED <<now, proc, pidfile, lock, handle, mutex, phase, boots, rec, fin, fout>>

\* openakita_service_start without the look at MANAGED_CHILD
StartManagedSkip(t, w) ==
    /\ phase = "ready" /\ Idle(t) /\ mutex = {}
    /\ th' = [th EXCEPT ![t] = [Call(t, "start", w) EXCEPT !.pc = "start_read"]]
    /\ UNCHANGED <<now, proc, pidfile, lock, handle, mutex, phase, boots, rec, fin, fout>>

\* 1. MANAGED_CHILD: a live child of this workspace is "running"; an exited
\* one is forgotten (try_wait reaps it)
StartManaged(t, w) ==
    /\ phase = "ready" /\ Idle(t) /\ mutex = {}
    /\ IF ManagedFor(w)
       THEN IF proc[TheHandle.pid].st = "run"
            THEN /\ th' = [th EXCEPT ![t] = Return(Call(t, "start", w), "running", TheHandle.pid)]
                 /\ UNCHANGED <<handle, proc>>
            ELSE /\ handle' = {}
                 /\ proc' = [proc EXCEPT ![TheHandle.pid] = NoProc]
                 /\ th' = [th EXCEPT ![t] = [Call(t, "start", w) EXCEPT !.pc = "start_read"]]
       ELSE /\ th' = [th EXCEPT ![t] = [Call(t, "start", w) EXCEPT !.pc = "start_read"]]
            /\ UNCHANGED <<handle, proc>>
    /\ UNCHANGED <<now, pidfile, lock, mutex, phase, boots, rec, fin, fout>>

\* read_pid_file(&workspace_id)
StartRead(t) ==
    /\ th[t].pc = "start_read"
    /\ LET d == read_pid_file(pidfile[th[t].ws])
       IN  th' = [th EXCEPT ![t].data = d,
                            ![t].pc = IF d = {} THEN "start_lock" ELSE "start_valid"]
    /\ UNCHANGED <<now, proc, pidfile, lock, handle, mutex, phase, boots, rec, fin, fout>>

\* is_pid_file_valid(&data): a valid record is "running"
StartValid(t) ==
    /\ th[t].pc = "start_valid"
    /\ \E c \in get_process_create_time(TheData(th[t]).pid) :
          LET r == [th[t] EXCEPT !.mism = ReusedSeen(TheData(th[t]), c)]
          IN  th' = [th EXCEPT ![t] =
                        IF is_pid_file_valid(TheData(th[t]), c)
                        THEN Return(r, "running", TheData(th[t]).pid)
                        ELSE [r EXCEPT !.data = {}, !.pc = "start_rmstale"]]
    /\ UNCHANGED <<now, proc, pidfile, lock, handle, mutex, phase, boots, rec, fin, fout>>

\* fs::remove_file(&pid_file) of the stale record
StartRmStale(t) ==
    /\ th[t].pc = "start_rmstale"
    /\ pidfile' = [pidfile EXCEPT ![th[t].ws] = Absent]
    /\ th' = [th EXCEPT ![t].pc = "start_lock"]
    /\ UNCHANGED <<now, proc, lock, handle, mutex, phase, boots, rec, fin, fout>>

\* openakita_service_start that goes on to spawn when try_acquire_start_lock
\* returned false
StartLockBlind(t) ==
    /\ th[t].pc = "start_lock"
    /\ IF try_acquire_start_lock(th[t].ws)
       THEN /\ lock' = [lock EXCEPT ![th[t].ws] = TRUE]
            /\ th' = [th EXCEPT ![t].held = TRUE, ![t].acq = TRUE, ![t].pc = "start_spawn"]
       ELSE /\ th' = [th EXCEPT ![t].pc = "start_spawn"]
            /\ UNCHANGED lock
    /\ UNCHANGED <<now, proc, pidfile, handle, mutex, phase, boots, rec, fin, fout>>

\* 2. try_acquire_start_lock, and the LockGuard
StartLock(t) ==
    /\ th[t].pc = "start_lock"
    /\ IF try_acquire_start_lock(th[t].ws)
       THEN /\ lock' = [lock EXCEPT ![th[t].ws] = TRUE]
            /\ th' = [th EXCEPT ![t].held = TRUE, ![t].acq = TRUE, ![t].pc = "start_spawn"]
       ELSE /\ th' = [th EXCEPT ![t] = Return(th[t], "StartRace", 0)]
            /\ UNCHANGED lock
    /\ UNCHANGED <<now, proc, pidfile, handle, mutex, phase, boots, rec, fin, fout>>

\* the ways to fail between the lock and the child: ensure_workspace_scaffold,
\* py.exists(), the log file, cmd.spawn()
SpawnErrors == {"ScaffoldFailed", "NoPython", "LogFailed", "SpawnFailed"}

\* ensure_workspace_scaffold ... cmd.spawn(): an error, or a child on a free pid
StartSpawn(t) ==
    /\ th[t].pc = "start_spawn"
    /\ \/ \E e \in SpawnErrors :
            /\ th' = [th EXCEPT ![t].res = e, ![t].pc = "start_release"]
            /\ UNCHANGED proc
       \/ \E p \in Pids :
            /\ proc[p].st = "free"
            /\ proc' = [proc EXCEPT ![p] = Process(now, th[t].ws, TRUE)]
            /\ th' = [u \in Threads |->
                        IF u = t
                        THEN [th[t] EXCEPT !.pid = p, !.spawned = TRUE, !.pc = "start_write"]
                        ELSE IF th[u].op = "start" /\ th[u].pc # "idle" /\ th[u].ws = th[t].ws
                        THEN [th[u] EXCEPT !.rival = TRUE]
                        ELSE th[u]]
    /\ UNCHANGED <<now, pidfile, lock, handle, mutex, phase, boots, rec, fin, fout>>

\* 3. write_pid_file, fs::write opening the file: it fails (and the child is
\* dropped, alive), or leaves the file truncated
StartWriteOpen(t) ==
    /\ th[t].pc = "start_write"
    /\ \/ /\ \E keep \in BOOLEAN : proc' = DropChild(proc, th[t].pid, keep)
          /\ th' = [th EXCEPT ![t].res = "WritePidFailed", ![t].pc = "start_release"]
          /\ UNCHANGED pidfile
       \/ /\ pidfile' = [pidfile EXCEPT ![th[t].ws] = Truncated]
          /\ th' = [th EXCEPT ![t].pc = "start_write2"]
          /\ UNCHANGED proc
    /\ UNCHANGED <<now, lock, handle, mutex, phase, boots, rec, fin, fout>>

\* write_pid_file, fs::write writing the bytes: it fails, or the record is there
StartWriteBytes(t) ==
    /\ th[t].pc = "start_write2"
    /\ \/ /\ \E keep \in BOOLEAN : proc' = DropChild(proc, th[t].pid, keep)
          /\ th' = [th EXCEPT ![t].res = "WritePidFailed", ![t].pc = "start_release"]
          /\ UNCHANGED pidfile
       \/ /\ pidfile' = [pidfile EXCEPT ![th[t].ws] = pid_file_json(th[t].pid, "tauri", now)]
          /\ th' = [th EXCEPT ![t].pc = "start_store"]
          /\ UNCHANGED proc
    /\ UNCHANGED <<now, lock, handle, mutex, phase, boots, rec, fin, fout>>

\* openakita_service_start that drops the Child instead of storing it
StartStoreNone(t) ==
    /\ th[t].pc = "start_store" /\ mutex = {}
    /\ th' = [th EXCEPT ![t].pc = "start_grace"]
    /\ UNCHANGED <<now, proc, pidfile, lock, handle, mutex, phase, boots, rec, fin, fout>>

\* openakita_service_start where dropping the replaced Child kills it
StartStoreKills(t) ==
    /\ th[t].pc = "start_store" /\ mutex = {}
    /\ handle' = {[ws |-> th[t].ws, pid |-> th[t].pid]}
    /\ IF handle # {} /\ TheHandle.pid # th[t].pid
       THEN proc' = [proc EXCEPT ![TheHandle.pid] = NoProc]
       ELSE UNCHANGED proc
    /\ th' = [th EXCEPT ![t].pc = "start_grace"]
    /\ UNCHANGED <<now, pidfile, lock, mutex, phase, boots, rec, fin, fout>>

\* 4. *guard = Some(ManagedProcess {..}): the Child it replaces is dropped
StartStore(t) ==
    /\ th[t].pc = "start_store" /\ mutex = {}
    /\ handle' = {[ws |-> th[t].ws, pid |-> th[t].pid]}
    /\ IF handle # {} /\ TheHandle.pid # th[t].pid
       THEN \E keep \in BOOLEAN : proc' = DropChild(proc, TheHandle.pid, keep)
       ELSE UNCHANGED proc
    /\ th' = [th EXCEPT ![t].pc = "start_grace"]
    /\ UNCHANGED <<now, pidfile, lock, mutex, phase, boots, rec, fin, fout>>

\* sleep(500 ms); is_pid_running(pid)
StartGrace(t) ==
    /\ th[t].pc = "start_grace"
    /\ th' = [th EXCEPT ![t] =
                IF is_pid_running(th[t].pid)
                THEN [th[t] EXCEPT !.res = "running", !.rpid = th[t].pid, !.pc = "start_release"]
                ELSE [th[t] EXCEPT !.pc = "start_clear"]]
    /\ UNCHANGED <<now, proc, pidfile, lock, handle, mutex, phase, boots, rec, fin, fout>>

\* if mp.pid == pid { *guard = None }
StartClear(t) ==
    /\ th[t].pc = "start_clear" /\ mutex = {}
    /\ handle' = IF handle # {} /\ TheHandle.pid = th[t].pid THEN {} ELSE handle
    /\ th' = [th EXCEPT ![t].pc = "start_rmfile"]
    /\ UNCHANGED <<now, proc, pidfile, lock, mutex, phase, boots, rec, fin, fout>>

\* fs::remove_file(&pid_file); Err(.. log tail ..)
StartRmFile(t) ==
    /\ th[t].pc = "start_rmfile"
    /\ pidfile' = [pidfile EXCEPT ![th[t].ws] = Absent]
    /\ th' = [th EXCEPT ![t].res = "ImmediateExit", ![t].pc = "start_release"]
    /\ UNCHANGED <<now, proc, lock, handle, mutex, phase, boots, rec, fin, fout>>

\* the return after the lock was taken: LockGuard's drop releases the lock
StartRelease(t) ==
    /\ th[t].pc = "start_release"
    /\ lock' = release_start_lock(th[t].ws)
    /\ th' = [th EXCEPT ![t] = Return([th[t] EXCEPT !.rel = th[t].rel + 1],
                                     th[t].res, th[t].rpid)]
    /\ UNCHANGED <<now, proc, pidfile, handle, mutex, phase, boots, rec, fin, fout>>

----------------------------------------------------------------------------
(* openakita_service_status *)

\* 1. MANAGED_CHILD: try_wait on the child of this workspace
StatusManaged(t, w) ==
    /\ phase = "ready" /\ Idle(t) /\ mutex = {}
    /\ IF ManagedFor(w)
       THEN IF proc[TheHandle.pid].st = "run"
            THEN /\ th' = [th EXCEPT ![t] = Return(Call(t, "status", w), "running", TheHandle.pid)]
                 /\ UNCHANGED <<handle, proc, mutex>>
            ELSE /\ handle' = {}
                 /\ proc' = [proc EXCEPT ![TheHandle.pid] = NoProc]
                 /\ mutex' = {t}
                 /\ th' = [th EXCEPT ![t] = [Call(t, "status", w) EXCEPT !.pc = "status_mrm"]]
       ELSE /\ th' = [th EXCEPT ![t] = [Call(t, "status", w) EXCEPT !.pc = "status_read"]]
            /\ UNCHANGED <<handle, proc, mutex>>
    /\ UNCHANGED <<now, pidfile, lock, phase, boots, rec, fin, fout>>

\* the child has exited: fs::remove_file(&pid_file), still under the guard
StatusManagedRm(t) ==
    /\ th[t].pc = "status_mrm"
    /\ pidfile' = [pidfile EXCEPT ![th[t].ws] = Absent]
    /\ mutex' = {}
    /\ th' = [th EXCEPT ![t] = Return(th[t], "not_running", 0)]
    /\ UNCHANGED <<now, proc, lock, handle, phase, boots, rec, fin, fout>>

\* 2. read_pid_file(&workspace_id)
StatusRead(t) ==
    /\ th[t].pc = "status_read"
    /\ LET d == read_pid_file(pidfile[th[t].ws])
       IN  th' = [th EXCEPT ![t] =
                    IF d = {} THEN Return(th[t], "not_running", 0)
                    ELSE [th[t] EXCEPT !.data = d, !.pc = "status_valid"]]
    /\ UNCHANGED <<now, proc, pidfile, lock, handle, mutex, phase, boots, rec, fin, fout>>

\* is_pid_file_valid(&data)
StatusValid(t) ==
    /\ th[t].pc = "status_valid"
    /\ \E c \in get_process_create_time(TheData(th[t]).pid) :
          LET r == [th[t] EXCEPT !.mism = ReusedSeen(TheData(th[t]), c)]
          IN  th' = [th EXCEPT ![t] =
                        IF is_pid_file_valid(TheData(th[t]), c)
                        THEN Return(r, "running", TheData(th[t]).pid)
                        ELSE [r EXCEPT !.data = {}, !.pc = "status_rm"]]
    /\ UNCHANGED <<now, proc, pidfile, lock, handle, mutex, phase, boots, rec, fin, fout>>

\* the record is stale: fs::remove_file(&pid_file)
StatusRm(t) ==
    /\ th[t].pc = "status_rm"
    /\ pidfile' = [pidfile EXCEPT ![th[t].ws] = Absent]
    /\ th' = [th EXCEPT ![t] = Return(th[t], "not_running", 0)]
    /\ UNCHANGED <<now, proc, lock, handle, mutex, phase, boots, rec, fin, fout>>

----------------------------------------------------------------------------
(* openakita_service_stop and graceful_stop_pid *)

\* the live pid of data was created more than the tolerance away from started_at
Reused(data) ==
    /\ Alive(data.pid)
    /\ data.started_at # 0
    /\ Differs(data.started_at, proc[data.pid].ctime)

\* the Registry file of workspace w holds a record of a live backend of w,
\* and the record's start time is within the tolerance of its creation time
Intact(w) ==
    \E d \in read_pid_file(pidfile[w]) :
        /\ Alive(d.pid) /\ proc[d.pid].ws = w
        /\ ~Differs(d.started_at, proc[d.pid].ctime)

\* 1. guard.take(): the child of this workspace is stopped under the guard,
\* the child of another workspace is put back
StopTake(t, w) ==
    /\ phase = "ready" /\ Idle(t) /\ mutex = {}
    /\ IF ManagedFor(w)
       THEN /\ handle' = {}
            /\ mutex' = {t}
            /\ th' = [th EXCEPT ![t] = [Call(t, "stop", w) EXCEPT
                        !.pc = "g_check", !.managed = TRUE, !.pid = TheHandle.pid,
                        !.tdead = ~Alive(TheHandle.pid)]]
       ELSE /\ th' = [th EXCEPT ![t] = [Call(t, "stop", w) EXCEPT !.pc = "stop_read"]]
            /\ UNCHANGED <<handle, mutex>>
    /\ UNCHANGED <<now, proc, pidfile, lock, phase, boots, rec, fin, fout>>

\* openakita_service_stop that takes a workspace without a record for an error
StopReadStrict(t) ==
    /\ th[t].pc = "stop_read"
    /\ LET d == read_pid_file(pidfile[th[t].ws])
       IN  th' = [th EXCEPT ![t] =
                    IF d = {} THEN Return(th[t], "NoRecord", 0)
                    ELSE [th[t] EXCEPT !.pid = (CHOOSE x \in d : TRUE).pid,
                                       !.tdead = ~Alive((CHOOSE x \in d : TRUE).pid),
                                       !.mism = Reused(CHOOSE x \in d : TRUE),
                                       !.pc = "g_check"]]
    /\ UNCHANGED <<now, proc, pidfile, lock, handle, mutex, phase, boots, rec, fin, fout>>

\* 2. read_pid_file(&workspace_id).map(|d| d.pid)
StopRead(t) ==
    /\ th[t].pc = "stop_read"
    /\ LET d == read_pid_file(pidfile[th[t].ws])
       IN  th' = [th EXCEPT ![t] =
                    IF d = {} THEN [th[t] EXCEPT !.pc = "stop_rm", !.tdead = TRUE]
                    ELSE [th[t] EXCEPT !.pid = (CHOOSE x \in d : TRUE).pid,
                                       !.tdead = ~Alive((CHOOSE x \in d : TRUE).pid),
                                       !.mism = Reused(CHOOSE x \in d : TRUE),
                                       !.pc = "g_check"]]
    /\ UNCHANGED <<now, proc, pidfile, lock, handle, mutex, phase, boots, rec, fin, fout>>

\* graceful_stop_pid returns ok (TRUE: Ok, FALSE: Err) to its caller: the
\* managed path (of the stop and of the quit handler) ignores it, the
\* pid-file path of the stop returns the error, stop_service_pid_entry
\* (called by the quit handler) removes the record on Ok only, and
\* openakita_stop_all_processes, which calls it too, goes on either way
AfterGraceful(r, ok) ==
    IF r.managed THEN [r EXCEPT !.pc = "stop_mkill", !.i = 0]
    ELSE IF r.op = "quit" THEN [r EXCEPT !.pc = IF ok THEN "quit_rm" ELSE "quit_next", !.i = 0]
    ELSE IF r.op = "stop_all" THEN [r EXCEPT !.pc = IF ok THEN "all_rm" ELSE "all_push", !.i = 0]
    ELSE IF ok THEN [r EXCEPT !.pc = "stop_rm", !.i = 0]
    ELSE Return(r, "StopFailed", 0)

\* if !is_pid_running(pid) { return Ok(()) }
GracefulCheck(t) ==
    /\ th[t].pc = "g_check"
    /\ th' = [th EXCEPT ![t] =
                IF ~is_pid_running(th[t].pid) THEN AfterGraceful(th[t], TRUE)
                ELSE [th[t] EXCEPT !.pc = "g_post"]]
    /\ UNCHANGED <<now, proc, pidfile, lock, handle, mutex, phase, boots, rec, fin, fout>>

\* graceful_stop_pid that polls for the exit whatever the request returned
GracefulPostWaits(t) ==
    /\ th[t].pc = "g_post"
    /\ \E ok \in BOOLEAN :
          th' = [th EXCEPT ![t].api_ok = ok,
                           ![t].acts = th[t].acts \cup {[kind |-> "shutdown", pid |-> th[t].pid]},
                           ![t].pc = "g_wait"]
    /\ UNCHANGED <<now, proc, pidfile, lock, handle, mutex, phase, boots, rec, fin, fout>>

\* POST /api/shutdown with a 3 s timeout: api_ok is whether a 2xx came back
GracefulPost(t) ==
    /\ th[t].pc = "g_post"
    /\ \E ok \in BOOLEAN :
          th' = [th EXCEPT ![t].api_ok = ok,
                           ![t].acts = th[t].acts \cup {[kind |-> "shutdown", pid |-> th[t].pid]},
                           ![t].pc = IF ok THEN "g_wait" ELSE "g_check2"]
    /\ UNCHANGED <<now, proc, pidfile, lock, handle, mutex, phase, boots, rec, fin, fout>>

\* for _ in 0..25 { if !is_pid_running(pid) { return Ok(()) } sleep(200 ms) }
GracefulWait(t) ==
    /\ th[t].pc = "g_wait"
    /\ th' = [th EXCEPT ![t] =
                IF ~is_pid_running(th[t].pid) THEN AfterGraceful(th[t], TRUE)
                ELSE IF th[t].i + 1 < GracefulPolls THEN [th[t] EXCEPT !.i = th[t].i + 1]
                ELSE [th[t] EXCEPT !.i = 0, !.pc = "g_check2"]]
    /\ UNCHANGED <<now, proc, pidfile, lock, handle, mutex, phase, boots, rec, fin, fout>>

\* if is_pid_running(pid) { .. }
GracefulCheck2(t) ==
    /\ th[t].pc = "g_check2"
    /\ th' = [th EXCEPT ![t].pc = IF is_pid_running(th[t].pid) THEN "g_kill" ELSE "g_final"]
    /\ UNCHANGED <<now, proc, pidfile, lock, handle, mutex, phase, boots, rec, fin, fout>>

\* kill_pid(pid)?: the signal reaches whatever process has the pid, which
\* exits on it or does not; with no such process the call is an error on
\* Unix (kill fails) and Ok on Windows (!is_pid_running)
kill_pid(t) ==
    /\ th[t].pc = "g_kill"
    /\ IF proc[th[t].pid].st = "free"
       THEN /\ \E ok \in BOOLEAN :
                 th' = [th EXCEPT ![t] =
                          IF ok THEN [th[t] EXCEPT !.pc = "k_wait"]
                          ELSE AfterGraceful(th[t], FALSE)]
            /\ UNCHANGED proc
       ELSE \E dies \in BOOLEAN :
               /\ proc' = IF dies /\ proc[th[t].pid].st = "run" THEN Exited(th[t].pid) ELSE proc
               /\ th' = [IF dies THEN MarkDead(th, th[t].pid) ELSE th EXCEPT
                            ![t].acts = th[t].acts \cup {[kind |-> "term", pid |-> th[t].pid]},
                            ![t].tdead = th[t].tdead \/ dies,
                            ![t].pc = "k_wait"]
    /\ UNCHANGED <<now, pidfile, lock, handle, mutex, phase, boots, rec, fin, fout>>

\* for _ in 0..10 { if !is_pid_running(pid) { break } sleep(200 ms) }
KillWait(t) ==
    /\ th[t].pc = "k_wait"
    /\ th' = [th EXCEPT ![t] =
                IF ~is_pid_running(th[t].pid) THEN [th[t] EXCEPT !.i = 0, !.pc = "g_final"]
                ELSE IF th[t].i + 1 < KillPolls THEN [th[t] EXCEPT !.i = th[t].i + 1]
                ELSE [th[t] EXCEPT !.i = 0, !.pc = "g_final"]]
    /\ UNCHANGED <<now, proc, pidfile, lock, handle, mutex, phase, boots, rec, fin, fout>>

\* graceful_stop_pid that ends with Ok(()) whatever the last check says
GracefulFinalOk(t) ==
    /\ th[t].pc = "g_final"
    /\ th' = [th EXCEPT ![t] = AfterGraceful(th[t], TRUE)]
    /\ UNCHANGED <<now, proc, pidfile, lock, handle, mutex, phase, boots, rec, fin, fout>>

\* if is_pid_running(pid) { Err(..) } else { Ok(()) }
GracefulFinal(t) ==
    /\ th[t].pc = "g_final"
    /\ th' = [th EXCEPT ![t] = AfterGraceful(th[t], ~is_pid_running(th[t].pid))]
    /\ UNCHANGED <<now, proc, pidfile, lock, handle, mutex, phase, boots, rec, fin, fout>>

\* the managed path: if is_pid_running(mp.pid) { mp.child.kill(); .. }: the
\* child is sent the kill, and has exited when the call returns or has not
StopManagedKill(t) ==
    /\ th[t].pc = "stop_mkill"
    /\ IF is_pid_running(th[t].pid)
       THEN \E dies \in BOOLEAN :
               /\ proc' = IF dies /\ proc[th[t].pid].st = "run" THEN Exited(th[t].pid) ELSE proc
               /\ th' = [IF dies THEN MarkDead(th, th[t].pid) ELSE th EXCEPT
                            ![t].acts = th[t].acts \cup {[kind |-> "kill", pid |-> th[t].pid]},
                            ![t].tdead = th[t].tdead \/ dies,
                            ![t].pc = "stop_mwait"]
       ELSE /\ th' = [th EXCEPT ![t].pc = "stop_mrm"]
            /\ UNCHANGED proc
    /\ UNCHANGED <<now, pidfile, lock, handle, mutex, phase, boots, rec, fin, fout>>

\* the managed path: mp.child.wait() returns once the child has exited, and
\* not before; the child is reaped
StopManagedWait(t) ==
    /\ th[t].pc = "stop_mwait"
    /\ proc[th[t].pid].st # "run"
    /\ proc' = [proc EXCEPT ![th[t].pid] = NoProc]
    /\ th' = [th EXCEPT ![t].pc = "stop_mrm"]
    /\ UNCHANGED <<now, pidfile, lock, handle, mutex, phase, boots, rec, fin, fout>>

\* the managed path: fs::remove_file(&pid_file); Ok(running: false); the guard drops
StopManagedRm(t) ==
    /\ th[t].pc = "stop_mrm"
    /\ pidfile' = [pidfile EXCEPT ![th[t].ws] = Absent]
    /\ mutex' = {}
    /\ th' = [th EXCEPT ![t] = Return(th[t], "not_running", 0)]
    /\ UNCHANGED <<now, proc, lock, handle, phase, boots, rec, fin, fout>>

\* openakita_service_stop that removes the lock marker with the record
StopRmLock(t) ==
    /\ th[t].pc = "stop_rm"
    /\ pidfile' = [pidfile EXCEPT ![th[t].ws] = Absent]
    /\ lock' = release_start_lock(th[t].ws)
    /\ th' = [th EXCEPT ![t] = Return(th[t], "not_running", 0)]
    /\ UNCHANGED <<now, proc, handle, mutex, phase, boots, rec, fin, fout>>

\* the pid-file path: fs::remove_file(&pid_file); Ok(running: false)
StopRm(t) ==
    /\ th[t].pc = "stop_rm"
    /\ pidfile' = [pidfile EXCEPT ![th[t].ws] = Absent]
    /\ th' = [th EXCEPT ![t] = Return(th[t], "not_running", 0)]
    /\ UNCHANGED <<now, proc, lock, handle, mutex, phase, boots, rec, fin, fout>>

----------------------------------------------------------------------------
(* list_service_pids and startup_reconcile *)

\* the characters of a workspace id, "openakita-" and ".pid" taken as one
\* unit each
id_parts(w) == IF w = "openakita-a" THEN <<"openakita-", "a">> ELSE <<w>>

\* format!("openakita-{}.pid", workspace_id)
pid_file_name(w) == <<"openakita-">> \o id_parts(w) \o <<".pid">>

\* service_pid_file(workspace_id): the path of the workspace's Registry file
service_pid_file(w) == <<"run">> \o pid_file_name(w)

\* str::trim_start_matches(pat): the pattern is removed for as long as the
\* string starts with it
RECURSIVE trim_start_matches(_, _)
trim_start_matches(s, pat) ==
    IF s # <<>> /\ Head(s) = pat THEN trim_start_matches(Tail(s), pat) ELSE s

\* str::trim_end_matches(pat): the pattern is removed for as long as the
\* string ends with it
RECURSIVE trim_end_matches(_, _)
trim_end_matches(s, pat) ==
    IF s # <<>> /\ s[Len(s)] = pat
    THEN trim_end_matches(SubSeq(s, 1, Len(s) - 1), pat) ELSE s

\* the workspace id list_service_pids takes from a file name that starts
\* with "openakita-" and ends with ".pid"
ws_of_name(name) == trim_end_matches(trim_start_matches(name, "openakita-"), ".pid")

\* the workspaces whose id has these characters
ws_named(parts) == {w \in Workspaces : id_parts(w) = parts}

\* the workspace list_service_pids takes the Registry file of workspace f
\* for: {} if the id it takes from the name is the id of no workspace
listed_ws(f) == ws_named(ws_of_name(pid_file_name(f)))

\* struct ServicePidEntry
ServicePidEntry(w, d, path) ==
    [workspace_id |-> w, pid |-> d.pid, pid_file |-> path, started_by |-> d.started_by]

\* the entry list_service_pids makes of the Registry file of workspace f:
\* read_pid_file reads the file of the id taken from the name, and if it
\* gives a record there is an entry with that id, that record and the path
\* of the file that was found
entries_of(f) ==
    UNION {{ServicePidEntry(w, d, service_pid_file(f)) : d \in read_pid_file(pidfile[w])} :
              w \in listed_ws(f)}

\* list_service_pids: the entries of the files openakita-*.pid of the run
\* directory
list_service_pids ==
    UNION {entries_of(f) : f \in {x \in Workspaces : pidfile[x].k # "absent"}}

\* the workspace whose Registry file has the path
file_owner(path) == CHOOSE w \in Workspaces : service_pid_file(w) = path

\* rec.pc: "locks", "list", "check".  rec.entries: the workspaces still to
\* check.  rec.hadlock: the workspaces whose lock marker the pass found.
\* rec.dead: the workspaces whose record named a pid that was not running
\* when the pass checked it.
RecStart == [pc |-> "locks", entries |-> {}, hadlock |-> {}, dead |-> {}]

\* startup_reconcile that leaves the *.lock files where they are
ReconcileLocksKeep ==
    /\ phase = "boot"
    /\ phase' = "reconcile"
    /\ rec' = [RecStart EXCEPT !.pc = "list", !.hadlock = {w \in Workspaces : lock[w]}]
    /\ UNCHANGED <<now, proc, pidfile, lock, handle, mutex, boots, th, fin, fout>>

\* 1. every *.lock file of the run directory is removed
ReconcileLocks ==
    /\ phase = "boot"
    /\ phase' = "reconcile"
    /\ lock' = [w \in Workspaces |-> FALSE]
    /\ rec' = [RecStart EXCEPT !.pc = "list", !.hadlock = {w \in Workspaces : lock[w]}]
    /\ UNCHANGED <<now, proc, pidfile, handle, mutex, boots, th, fin, fout>>

\* 2. let entries = list_service_pids()
ReconcileList ==
    /\ phase = "reconcile" /\ rec.pc = "list"
    /\ rec' = [rec EXCEPT !.pc = "check",
                          !.entries = {e.workspace_id : e \in list_service_pids}]
    /\ UNCHANGED <<now, proc, pidfile, lock, handle, mutex, phase, boots, th, fin, fout>>

\* startup_reconcile that removes every record it lists, valid or not
ReconcileEntryPurge(w) ==
    /\ phase = "reconcile" /\ rec.pc = "check" /\ w \in rec.entries
    /\ LET d == read_pid_file(pidfile[w])
       IN  /\ pidfile' = [pidfile EXCEPT ![w] = Absent]
           /\ rec' = [rec EXCEPT
                        !.entries = rec.entries \ {w},
                        !.dead = IF d # {} /\ ~is_pid_running((CHOOSE x \in d : TRUE).pid)
                                 THEN rec.dead \cup {w} ELSE rec.dead]
    /\ UNCHANGED <<now, proc, lock, handle, mutex, phase, boots, th, fin, fout>>

\* for ent in &entries: the record is read again and removed unless valid
ReconcileEntry(w) ==
    /\ phase = "reconcile" /\ rec.pc = "check" /\ w \in rec.entries
    /\ LET d == read_pid_file(pidfile[w])
       IN  /\ IF d = {} THEN UNCHANGED pidfile
              ELSE \E c \in get_process_create_time((CHOOSE x \in d : TRUE).pid) :
                      pidfile' = IF ~is_pid_file_valid(CHOOSE x \in d : TRUE, c)
                                 THEN [pidfile EXCEPT ![w] = Absent]
                                 ELSE pidfile
           /\ rec' = [rec EXCEPT
                        !.entries = rec.entries \ {w},
                        !.dead = IF d # {} /\ ~is_pid_running((CHOOSE x \in d : TRUE).pid)
                                 THEN rec.dead \cup {w} ELSE rec.dead]
    /\ UNCHANGED <<now, proc, lock, handle, mutex, phase, boots, th, fin, fout>>

\* startup_reconcile returns: the commands are served from now on
ReconcileDone ==
    /\ phase = "reconcile" /\ rec.pc = "check" /\ rec.entries = {}
    /\ phase' = "ready"
    /\ UNCHANGED <<now, proc, pidfile, lock, handle, mutex, boots, rec, th, fin, fout>>

----------------------------------------------------------------------------
(* The tray's quit handler and kill_openakita_orphans *)

\* the command line of process p holds "openakita.main" and "serve": the
\* process is a backend, whoever started it (a zombie has no command line)
Signature(p) == Alive(p) /\ proc[p].ws # "none"

\* the Registry holds a record with started_by = "external" whose pid is the
\* pid p of a live process
ExternalLive(p) ==
    /\ Alive(p)
    /\ \E w \in Workspaces : \E d \in read_pid_file(pidfile[w]) :
          d.pid = p /\ d.started_by = "external"

\* kill_openakita_orphans by thread t, which goes on as r: every process
\* with the signature is sent the termination signal, and exits on it or not
kill_openakita_orphans(t, r) ==
    LET found == {p \in Pids : Signature(p) /\ is_pid_running(p)}
    IN  \E dying \in SUBSET found :
           /\ proc' = [p \in Pids |-> IF p \in dying THEN Exited(p)[p] ELSE proc[p]]
           /\ th' = [th EXCEPT ![t] =
                        [r EXCEPT !.acts = r.acts \cup {[kind |-> "term", pid |-> p] : p \in found}]]

\* 1. guard.take(): the managed child, of whatever workspace, is stopped
\* under the guard
QuitTake(t) ==
    /\ phase = "ready" /\ Idle(t) /\ mutex = {}
    /\ IF handle # {}
       THEN /\ handle' = {}
            /\ mutex' = {t}
            /\ th' = [th EXCEPT ![t] = [Fresh("quit", TheHandle.ws) EXCEPT
                        !.pc = "g_check", !.managed = TRUE, !.pid = TheHandle.pid]]
       ELSE /\ th' = [th EXCEPT ![t] = [Fresh("quit", "a") EXCEPT !.pc = "quit_list"]]
            /\ UNCHANGED <<handle, mutex>>
    /\ UNCHANGED <<now, proc, pidfile, lock, phase, boots, rec, fin, fout>>

\* fs::remove_file(service_pid_file(&mp.workspace_id)); the guard drops
QuitManagedRm(t) ==
    /\ th[t].pc = "stop_mrm" /\ th[t].op = "quit"
    /\ pidfile' = [pidfile EXCEPT ![th[t].ws] = Absent]
    /\ mutex' = {}
    /\ th' = [th EXCEPT ![t].managed = FALSE, ![t].pid = 0, ![t].pc = "quit_list"]
    /\ UNCHANGED <<now, proc, lock, handle, phase, boots, rec, fin, fout>>

\* 2. let entries = list_service_pids()
QuitList(t) ==
    /\ th[t].pc = "quit_list"
    /\ th' = [th EXCEPT ![t].entries = list_service_pids, ![t].pc = "quit_next"]
    /\ UNCHANGED <<now, proc, pidfile, lock, handle, mutex, phase, boots, rec, fin, fout>>

\* for ent in &entries: an external entry is skipped; stop_service_pid_entry
\* of any other calls graceful_stop_pid if the pid is running
QuitNext(t) ==
    /\ th[t].pc = "quit_next"
    /\ IF th[t].entries = {}
       THEN th' = [th EXCEPT ![t].pc = "quit_scan"]
       ELSE \E ent \in th[t].entries :
               th' = [th EXCEPT ![t] =
                        [th[t] EXCEPT
                           !.entries = th[t].entries \ {ent},
                           !.ws = file_owner(ent.pid_file),
                           !.pid = ent.pid,
                           !.pc = IF ent.started_by = "external" THEN "quit_next"
                                  ELSE IF is_pid_running(ent.pid) THEN "g_check"
                                  ELSE "quit_rm"]]
    /\ UNCHANGED <<now, proc, pidfile, lock, handle, mutex, phase, boots, rec, fin, fout>>

\* stop_service_pid_entry: fs::remove_file(&ent.pid_file), the file
\* list_service_pids found (th[t].ws is the workspace it is the file of)
QuitRm(t) ==
    /\ th[t].pc = "quit_rm"
    /\ pidfile' = [pidfile EXCEPT ![th[t].ws] = Absent]
    /\ th' = [th EXCEPT ![t].pc = "quit_next"]
    /\ UNCHANGED <<now, proc, lock, handle, mutex, phase, boots, rec, fin, fout>>

\* 3. kill_openakita_orphans()
QuitScan(t) ==
    /\ th[t].pc = "quit_scan"
    /\ kill_openakita_orphans(t, [th[t] EXCEPT !.pc = "quit_confirm"])
    /\ UNCHANGED <<now, pidfile, lock, handle, mutex, phase, boots, rec, fin, fout>>

\* 4. after the sleep: the entries not external whose pid is running, a
\* second kill_openakita_orphans; app.exit(0) if both are empty, the event
\* quit_failed if not
QuitConfirm(t) ==
    /\ th[t].pc = "quit_confirm"
    /\ LET still_pid == {x \in list_service_pids :
                            x.started_by # "external" /\ is_pid_running(x.pid)}
           still_orphans == {p \in Pids : Signature(p) /\ is_pid_running(p)}
       IN  kill_openakita_orphans(t,
              [th[t] EXCEPT !.pc = "quit_done",
                            !.res = IF still_pid = {} /\ still_orphans = {}
                                    THEN "exit" ELSE "quit_failed"])
    /\ UNCHANGED <<now, pidfile, lock, handle, mutex, phase, boots, rec, fin, fout>>

----------------------------------------------------------------------------
(* openakita_stop_all_processes *)

\* the pids of the entries of list_service_pids whose process is alive
TrackedAlive == {x.pid : x \in {e \in list_service_pids : Alive(e.pid)}}

\* let entries = list_service_pids(); fout is the Vec stopped, fin the
\* pids of the Registry whose process is alive at the call (kept for the
\* properties)
AllList(t) ==
    /\ phase = "ready" /\ Idle(t) /\ th[t].op = "none"
    /\ th' = [th EXCEPT ![t] = [Fresh("stop_all", "a") EXCEPT
                !.entries = list_service_pids, !.pc = "all_next"]]
    /\ fin' = TrackedAlive
    /\ fout' = {}
    /\ UNCHANGED <<now, proc, pidfile, lock, handle, mutex, phase, boots, rec>>

\* for ent in &entries { if is_pid_running(ent.pid) { stop_service_pid_entry .. } }
AllNext(t) ==
    /\ th[t].pc = "all_next"
    /\ IF th[t].entries = {}
       THEN th' = [th EXCEPT ![t].pc = "all_scan"]
       ELSE \E ent \in th[t].entries :
               th' = [th EXCEPT ![t] =
                        [th[t] EXCEPT
                           !.entries = th[t].entries \ {ent},
                           !.ws = file_owner(ent.pid_file),
                           !.pid = ent.pid,
                           !.pc = IF is_pid_running(ent.pid) THEN "g_check"
                                  ELSE "all_next"]]
    /\ UNCHANGED <<now, proc, pidfile, lock, handle, mutex, phase, boots, rec, fin, fout>>

\* stop_service_pid_entry returned Ok: it has removed ent.pid_file;
\* stopped.push(ent.pid)
AllRm(t) ==
    /\ th[t].pc = "all_rm"
    /\ pidfile' = [pidfile EXCEPT ![th[t].ws] = Absent]
    /\ fout' = fout \cup {th[t].pid}
    /\ th' = [th EXCEPT ![t].pc = "all_next"]
    /\ UNCHANGED <<now, proc, lock, handle, mutex, phase, boots, rec, fin>>

\* stop_service_pid_entry returned Err: let _ = ..; stopped.push(ent.pid)
AllPush(t) ==
    /\ th[t].pc = "all_push"
    /\ fout' = fout \cup {th[t].pid}
    /\ th' = [th EXCEPT ![t].pc = "all_next"]
    /\ UNCHANGED <<now, proc, pidfile, lock, handle, mutex, phase, boots, rec, fin>>

\* let orphans = kill_openakita_orphans(): the pids it signalled are pushed
\* unless stopped holds them; stopped is returned
AllScan(t) ==
    /\ th[t].pc = "all_scan"
    /\ kill_openakita_orphans(t, Return(th[t], "done", 0))
    /\ fout' = fout \cup {p \in Pids : Signature(p) /\ is_pid_running(p)}
    /\ UNCHANGED <<now, pidfile, lock, handle, mutex, phase, boots, rec, fin>>

----------------------------------------------------------------------------
(* The setup of the application: main's setup closure *)

\* a backend of workspace w is executing: the service that answers on the
\* port of w
Answering(w) == \E p \in Pids : Alive(p) /\ proc[p].ws = w

\* GET http://127.0.0.1:<port>/api/health with a 2 s timeout, and
\* r.status().is_success(): the results a call can give (no answer in time,
\* or no client, is false)
health_check(w) == IF Answering(w) THEN {TRUE, FALSE} ELSE {FALSE}

\* the thread of setup's auto-start
AutoThread == 2

\* what setup leaves of its auto-start: res is "skipped" when no thread was
\* spawned, "" when the thread was spawned and has not called
\* openakita_service_start yet; api_ok is what the health check returned
AutoState(w, spawn, ok) ==
    [Fresh("auto", w) EXCEPT !.res = IF spawn THEN "" ELSE "skipped", !.api_ok = ok]

\* setup that sees to the auto-start before it calls startup_reconcile
SetupAutoFirst ==
    /\ phase = "boot" /\ th[AutoThread].op = "none"
    /\ \E is_background \in BOOLEAN, ws \in {{}, {"a"}} :
          IF is_background /\ ws # {}
          THEN \E already_running \in health_check(CHOOSE w \in ws : TRUE) :
                  th' = [th EXCEPT ![AutoThread] =
                           AutoState(CHOOSE w \in ws : TRUE, ~already_running, already_running)]
          ELSE th' = [th EXCEPT ![AutoThread] = AutoState("a", FALSE, FALSE)]
    /\ UNCHANGED <<now, proc, pidfile, lock, handle, mutex, phase, boots, rec, fin, fout>>

\* setup after startup_reconcile and setup_tray: with --background and a
\* current workspace, the health check, and unless it succeeded the thread
\* that will call openakita_service_start; then setup returns
SetupAuto ==
    /\ phase = "ready" /\ th[AutoThread].op = "none"
    /\ \E is_background \in BOOLEAN, ws \in {{}, {"a"}} :
          IF is_background /\ ws # {}
          THEN \E already_running \in health_check(CHOOSE w \in ws : TRUE) :
                  th' = [th EXCEPT ![AutoThread] =
                           AutoState(CHOOSE w \in ws : TRUE, ~already_running, already_running)]
          ELSE th' = [th EXCEPT ![AutoThread] = AutoState("a", FALSE, FALSE)]
    /\ UNCHANGED <<now, proc, pidfile, lock, handle, mutex, phase, boots, rec, fin, fout>>

\* the thread of the auto-start runs: let _ = openakita_service_start(..)
AutoStart ==
    /\ th[AutoThread].op = "auto" /\ th[AutoThread].res = ""
    /\ \/ StartRunDirFails(AutoThread, th[AutoThread].ws)
       \/ StartManaged(AutoThread, th[AutoThread].ws)

\* setup has returned: the commands of the front-end are served
Served == phase = "ready" /\ th[AutoThread].op # "none"

----------------------------------------------------------------------------
(* The environment *)

\* the clock advances, by the tolerance or by one second more
Tick ==
    /\ \E d \in {IdentityTolerance, IdentityTolerance + 1} :
          /\ now + d <= MaxTime
          /\ now' = now + d
    /\ UNCHANGED <<proc, pidfile, lock, handle, mutex, phase, boots, rec, th, fin, fout>>

\* a process exits by itself (a crash, a shutdown it was asked for, a signal
\* it honours late)
ProcExit(p) ==
    /\ proc[p].st = "run"
    /\ proc' = Exited(p)
    /\ th' = MarkDead(th, p)
    /\ UNCHANGED <<now, pidfile, lock, handle, mutex, phase, boots, rec, fin, fout>>

\* the operating system gives a free pid to an unrelated process
OsSpawn(p) ==
    /\ proc[p].st = "free"
    /\ proc' = [proc EXCEPT ![p] = Process(now, "none", FALSE)]
    /\ UNCHANGED <<now, pidfile, lock, handle, mutex, phase, boots, rec, th, fin, fout>>

\* the supervisor dies and is started again: its threads and MANAGED_CHILD
\* are gone, its zombies are reaped, the run directory stays as it was
Crash ==
    /\ boots < MaxBoots
    /\ boots' = boots + 1
    /\ phase' = "boot"
    /\ rec' = RecStart
    /\ handle' = {}
    /\ mutex' = {}
    /\ th' = [t \in Threads |-> Fresh("none", "a")]
    /\ proc' = [p \in Pids |-> IF proc[p].st = "zombie" THEN NoProc
                               ELSE [proc[p] EXCEPT !.child = FALSE]]
    /\ UNCHANGED <<now, pidfile, lock, fin, fout>>

----------------------------------------------------------------------------
(* The specification of the supervisor *)

\* Registry files a start can find in the run directory: none, a legacy
\* bare pid, junk, records of either owner, a forged start time, pid 0
InitFiles ==
    {Absent, TextFile(<<"1">>), TextFile(<<"x">>),
     JsonFile({1}, "tauri", {1}), JsonFile({1}, "tauri", {1 + IdentityTolerance + 1}),
     JsonFile({1}, "external", {1}), JsonFile({0}, "tauri", {1})}

\* what pid 1 can be when the supervisor starts: nothing, a backend of
\* workspace a that outlived the last supervisor, an unrelated process
InitProcs == {NoProc, Process(1, "a", FALSE), Process(1, "none", FALSE)}

\* the supervisor is started: nothing in memory, leftovers on disk
Init ==
    /\ now = 1
    /\ \E p1 \in InitProcs : proc = [p \in Pids |-> IF p = 1 THEN p1 ELSE NoProc]
    /\ \E f \in InitFiles : pidfile = [w \in Workspaces |-> IF w = "a" THEN f ELSE Absent]
    /\ \E l \in BOOLEAN : lock = [w \in Workspaces |-> w = "a" /\ l]
    /\ handle = {}
    /\ mutex = {}
    /\ phase = "boot"
    /\ boots = 1
    /\ rec = RecStart
    /\ th = [t \in Threads |-> Fresh("none", "a")]
    /\ fin = 0
    /\ fout = 0

\* the workspaces the commands are called for
CallWs == {"a"}

\* one step of openakita_service_start on thread t, but for the two steps
\* of StartFailsLate
StartStep(t) ==
    \/ \E w \in CallWs : StartRunDirFails(t, w)
    \/ \E w \in CallWs : StartManaged(t, w)
    \/ StartRead(t) \/ StartValid(t) \/ StartRmStale(t) \/ StartLock(t)
    \/ StartSpawn(t) \/ StartWriteOpen(t) \/ StartWriteBytes(t) \/ StartStore(t)
    \/ StartGrace(t) \/ StartRelease(t)

\* the end of a start whose child is_pid_running no longer sees after the
\* grace sleep: the pid is only free again once somebody has waited for the
\* child, and between StartStore and StartGrace only another command does
\* (try_wait in a start or a status, wait in a stop)
StartFailsLate(t) == StartClear(t) \/ StartRmFile(t)

\* one step of openakita_service_status on thread t
StatusStep(t) ==
    \/ \E w \in CallWs : StatusManaged(t, w)
    \/ StatusManagedRm(t) \/ StatusRead(t) \/ StatusValid(t) \/ StatusRm(t)

\* one step of openakita_service_stop on thread t
StopStep(t) ==
    \/ \E w \in CallWs : StopTake(t, w)
    \/ StopRead(t) \/ GracefulCheck(t) \/ GracefulPost(t) \/ GracefulWait(t)
    \/ GracefulCheck2(t) \/ kill_pid(t) \/ KillWait(t) \/ GracefulFinal(t)
    \/ StopManagedKill(t) \/ StopManagedWait(t) \/ StopManagedRm(t) \/ StopRm(t)

\* one step of the startup reconciliation
ReconcileStep ==
    \/ ReconcileLocks \/ ReconcileList
    \/ \E w \in Workspaces : ReconcileEntry(w)
    \/ ReconcileDone

\* one step of the world around the supervisor
EnvStep ==
    \/ Tick
    \/ \E p \in Pids : ProcExit(p)
    \/ \E p \in Pids : OsSpawn(p)
    \/ Crash

\* the commands called one after the other (by one thread: no other command
\* waits for a child meanwhile, so StartFailsLate has no step to take),
\* around a supervisor that can crash and restart
Next == StartStep(1) \/ StatusStep(1) \/ StopStep(1) \/ ReconcileStep \/ EnvStep

Spec == Init /\ [][Next]_vars

\* the supervisor has reconciled a run directory and serves commands
InitConc ==
    /\ now = 1
    /\ proc = [p \in Pids |-> NoProc]
    /\ \E f \in {Absent, TextFile(<<"1">>)} :
          pidfile = [w \in Workspaces |-> IF w = "a" THEN f ELSE Absent]
    /\ lock = [w \in Workspaces |-> FALSE]
    /\ handle = {}
    /\ mutex = {}
    /\ phase = "ready"
    /\ boots = 1
    /\ rec = [RecStart EXCEPT !.pc = "check"]
    /\ th = [t \in Threads |-> Fresh("none", "a")]
    /\ fin = 0
    /\ fout = 0

\* the commands of thread 1 interleaved with the starts (the auto-start
\* thread of setup) and the status polls of thread 2, while processes exit
NextConc ==
    \/ StartStep(1) \/ StartFailsLate(1) \/ StatusStep(1) \/ StopStep(1)
    \/ StartStep(2) \/ StartFailsLate(2) \/ StatusStep(2)
    \/ \E p \in Pids : ProcExit(p)

SpecConc == InitConc /\ [][NextConc]_vars

\* one step of openakita_service_start on the auto-start's thread, after
\* its call
AutoStep ==
    \/ StartRead(AutoThread) \/ StartValid(AutoThread) \/ StartRmStale(AutoThread)
    \/ StartLock(AutoThread) \/ StartSpawn(AutoThread) \/ StartWriteOpen(AutoThread)
    \/ StartWriteBytes(AutoThread) \/ StartStore(AutoThread) \/ StartGrace(AutoThread)
    \/ StartFailsLate(AutoThread) \/ StartRelease(AutoThread)

\* the application from its start: the reconciliation, the rest of setup,
\* then the auto-start's thread next to the commands of the front-end, while
\* processes exit
NextSetup ==
    \/ ReconcileStep
    \/ SetupAuto
    \/ AutoStart
    \/ AutoStep
    \/ (Served /\ StartStep(1))
    \/ (Served /\ StatusStep(1))
    \/ (Served /\ StopStep(1))
    \/ \E p \in Pids : ProcExit(p)

SpecSetup == Init /\ [][NextSetup]_vars

\* Registry files that hold no record: pid 0 as a record and as a bare
\* integer (padded or not), a record without pid, text that is no number,
\* an empty file
JunkFiles ==
    {JsonFile({0}, "tauri", {1}), JsonFile({0}, Missing, {}), JsonFile({}, "tauri", {1}),
     TextFile(<<"0">>), TextFile(<<" ", "0", "\n">>), TextFile(<<"x">>),
     TextFile(<<"1", "x">>), TextFile(<<"+">>), TextFile(<<>>)}

\* the supervisor serves commands; the Registry file of workspace a is
\* absent, holds no record, or (to compare with) holds the record of pid 1;
\* pid 1 is nothing, a backend of a or an unrelated process
InitJunk ==
    /\ now = 1
    /\ \E p1 \in InitProcs : proc = [p \in Pids |-> IF p = 1 THEN p1 ELSE NoProc]
    /\ \E f \in {Absent, JsonFile({1}, "tauri", {1})} \cup JunkFiles :
          pidfile = [w \in Workspaces |-> IF w = "a" THEN f ELSE Absent]
    /\ lock = [w \in Workspaces |-> FALSE]
    /\ handle = {}
    /\ mutex = {}
    /\ phase = "ready"
    /\ boots = 1
    /\ rec = [RecStart EXCEPT !.pc = "check"]
    /\ th = [t \in Threads |-> Fresh("none", "a")]
    /\ fin = 0
    /\ fout = 0

\* the commands called one after the other, while processes exit
NextJunk ==
    StartStep(1) \/ StatusStep(1) \/ StopStep(1) \/ \E p \in Pids : ProcExit(p)

SpecJunk == InitJunk /\ [][NextJunk]_vars

\* the supervisor serves commands and the run directory holds a lock marker
\* of workspace a that no start of this supervisor holds (startup_reconcile
\* could not remove it, or it appeared since); pid 1 is nothing or a backend
\* of a, with its record or without
InitLeak ==
    /\ now = 1
    /\ \E p1 \in {NoProc, Process(1, "a", FALSE)} :
          proc = [p \in Pids |-> IF p = 1 THEN p1 ELSE NoProc]
    /\ \E f \in {Absent, JsonFile({1}, "tauri", {1})} :
          pidfile = [w \in Workspaces |-> IF w = "a" THEN f ELSE Absent]
    /\ lock = [w \in Workspaces |-> w = "a"]
    /\ handle = {}
    /\ mutex = {}
    /\ phase = "ready"
    /\ boots = 1
    /\ rec = [RecStart EXCEPT !.pc = "check"]
    /\ th = [t \in Threads |-> Fresh("none", "a")]
    /\ fin = 0
    /\ fout = 0

\* the commands called one after the other, while processes exit; the
\* supervisor can crash, and then starts again with the reconciliation
NextLeak ==
    \/ StartStep(1) \/ StatusStep(1) \/ StopStep(1)
    \/ ReconcileStep
    \/ \E p \in Pids : ProcExit(p)
    \/ Crash

SpecLeak == InitLeak /\ [][NextLeak]_vars

\* the workspaces of the commands where two workspaces share the supervisor
TwoWs == {"a", "b"}

\* the supervisor serves commands, the run directory is empty and no
\* backend runs
InitTwo ==
    /\ now = 1
    /\ proc = [p \in Pids |-> NoProc]
    /\ pidfile = [w \in Workspaces |-> Absent]
    /\ lock = [w \in Workspaces |-> FALSE]
    /\ handle = {}
    /\ mutex = {}
    /\ phase = "ready"
    /\ boots = 1
    /\ rec = [RecStart EXCEPT !.pc = "check"]
    /\ th = [t \in Threads |-> Fresh("none", "a")]
    /\ fin = 0
    /\ fout = 0

\* the commands called one after the other for either workspace, while
\* processes exit
NextTwo ==
    \/ \E w \in TwoWs : StartManaged(1, w)
    \/ \E w \in TwoWs : StatusManaged(1, w)
    \/ \E w \in TwoWs : StopTake(1, w)
    \/ StartStep(1) \/ StatusStep(1) \/ StopStep(1)
    \/ \E p \in Pids : ProcExit(p)

SpecTwo == InitTwo /\ [][NextTwo]_vars

----------------------------------------------------------------------------
(* The control ports of two workspaces *)

\* graceful_stop_pid: port.unwrap_or(18900)
DefaultPort == 18900

\* what the .env of a workspace says of API_PORT: nothing, or a port that
\* is not the default
EnvFiles == {{}, {DefaultPort + 1}}

\* read_workspace_api_port: the value of the API_PORT line of the
\* workspace's .env (fin is the .env files), None without one
read_workspace_api_port(w) == fin[w]

\* let effective_port = port.unwrap_or(18900)
effective_port(port) == IF port = {} THEN DefaultPort ELSE CHOOSE q \in port : TRUE

\* the control port a backend of workspace w publishes: the port of the
\* workspace's configuration, the default without one
published_port(w) == effective_port(fin[w])

\* the live backends whose published port is q
Listening(q) ==
    {p \in Pids : Alive(p) /\ proc[p].ws \in TwoWs /\ published_port(proc[p].ws) = q}

\* the supervisor serves commands, the run directory is empty, no backend
\* runs, and each workspace has its .env
InitPorts ==
    /\ now = 1
    /\ proc = [p \in Pids |-> NoProc]
    /\ pidfile = [w \in Workspaces |-> Absent]
    /\ lock = [w \in Workspaces |-> FALSE]
    /\ handle = {}
    /\ mutex = {}
    /\ phase = "ready"
    /\ boots = 1
    /\ rec = [RecStart EXCEPT !.pc = "check"]
    /\ th = [t \in Threads |-> Fresh("none", "a")]
    /\ fin \in [TwoWs -> EnvFiles]
    /\ fout = 0

SpecPorts == InitPorts /\ [][NextTwo]_vars

\* what openakita_stop_all_processes can find: pid 1 is nothing, a backend
\* of workspace a or an unrelated process, and the Registry file of a is
\* absent or a record of pid 1; pid 2 is nothing or the backend of
\* workspace b with its record, or a backend without a record
InitAll ==
    /\ now = 1
    /\ \E p1 \in InitProcs, p2 \in {NoProc, Process(1, "b", FALSE)} :
          proc = [p \in Pids |-> IF p = 1 THEN p1 ELSE IF p = MaxPid THEN p2 ELSE NoProc]
    /\ \E fa \in {Absent, JsonFile({1}, "external", {1}), JsonFile({1}, "tauri", {1})},
          fb \in {Absent, pid_file_json(MaxPid, "tauri", 1)} :
          pidfile = [w \in Workspaces |-> IF w = "a" THEN fa ELSE IF w = "b" THEN fb ELSE Absent]
    /\ lock = [w \in Workspaces |-> FALSE]
    /\ handle = {}
    /\ mutex = {}
    /\ phase = "ready"
    /\ boots = 1
    /\ rec = [RecStart EXCEPT !.pc = "check"]
    /\ th = [t \in Threads |-> Fresh("none", "a")]
    /\ fin = {}
    /\ fout = {}

\* one step of openakita_stop_all_processes on thread t
AllStep(t) ==
    \/ AllList(t) \/ AllNext(t) \/ AllRm(t) \/ AllPush(t) \/ AllScan(t)
    \/ GracefulCheck(t) \/ GracefulPost(t) \/ GracefulWait(t) \/ GracefulCheck2(t)
    \/ kill_pid(t) \/ KillWait(t) \/ GracefulFinal(t)

\* openakita_stop_all_processes runs once, while processes exit
NextAll == AllStep(1) \/ \E p \in Pids : ProcExit(p)

SpecAll == InitAll /\ [][NextAll]_vars

\* what the quit handler can find: pid 1 is nothing, a backend of
\* workspace a that the supervisor holds no handle of, or an unrelated
\* process; workspace a has no record, the record a command-line start
\* wrote or the record of an earlier supervisor; workspace openakita-a has
\* no record or the record of an earlier supervisor; pid 2 is nothing or
\* the managed child, of workspace b
InitQuit ==
    /\ now = 1
    /\ \E p1 \in InitProcs, managed \in BOOLEAN :
          /\ proc = [p \in Pids |-> IF p = 1 THEN p1
                                    ELSE IF p = MaxPid /\ managed THEN Process(1, "b", TRUE)
                                    ELSE NoProc]
          /\ handle = IF managed THEN {[ws |-> "b", pid |-> MaxPid]} ELSE {}
          /\ \E f \in {Absent, JsonFile({1}, "external", {1}), JsonFile({1}, "tauri", {1})},
                g \in {Absent, JsonFile({1}, "tauri", {1})} :
                pidfile = [w \in Workspaces |->
                             IF w = "a" THEN f
                             ELSE IF w = "b" /\ managed THEN pid_file_json(MaxPid, "tauri", 1)
                             ELSE IF w = "openakita-a" THEN g
                             ELSE Absent]
    /\ lock = [w \in Workspaces |-> FALSE]
    /\ mutex = {}
    /\ phase = "ready"
    /\ boots = 1
    /\ rec = [RecStart EXCEPT !.pc = "check"]
    /\ th = [t \in Threads |-> Fresh("none", "a")]
    /\ fin = 0
    /\ fout = 0

\* one step of the quit handler on thread t
QuitStep(t) ==
    \/ QuitTake(t) \/ QuitManagedRm(t) \/ QuitList(t) \/ QuitNext(t) \/ QuitRm(t)
    \/ QuitScan(t) \/ QuitConfirm(t)
    \/ GracefulCheck(t) \/ GracefulPost(t) \/ GracefulWait(t) \/ GracefulCheck2(t)
    \/ kill_pid(t) \/ KillWait(t) \/ GracefulFinal(t)
    \/ StopManagedKill(t) \/ StopManagedWait(t)

\* the quit handler runs once, while processes exit
NextQuit == QuitStep(1) \/ \E p \in Pids : ProcExit(p)

SpecQuit == InitQuit /\ [][NextQuit]_vars

\* what a stop can find: nothing, a backend of workspace a known by its
\* record only, or the managed child of workspace a
InitStop ==
    /\ now = 1
    /\ \E k \in {"none", "record", "managed"} :
          /\ proc = [p \in Pids |-> IF p = 1 /\ k # "none"
                                    THEN Process(1, "a", k = "managed") ELSE NoProc]
          /\ handle = IF k = "managed" THEN {[ws |-> "a", pid |-> 1]} ELSE {}
          /\ pidfile = [w \in Workspaces |->
                          IF w = "a" /\ k # "none" THEN pid_file_json(1, "tauri", 1)
                          ELSE Absent]
    /\ lock = [w \in Workspaces |-> FALSE]
    /\ mutex = {}
    /\ phase = "ready"
    /\ boots = 1
    /\ rec = [RecStart EXCEPT !.pc = "check"]
    /\ th = [t \in Threads |-> Fresh("none", "a")]
    /\ fin = 0
    /\ fout = 0

\* stops called one after the other, while processes exit
NextStop == StopStep(1) \/ \E p \in Pids : ProcExit(p)

\* the thread of the stop is scheduled for as long as it has a step to take;
\* nothing obliges a process to exit
SpecStop == InitStop /\ [][NextStop]_vars /\ WF_vars(StopStep(1))

\* two stops of one workspace, called from two threads, while processes exit
NextStop2 == StopStep(1) \/ StopStep(2) \/ \E p \in Pids : ProcExit(p)

\* both threads are scheduled for as long as they have a step to take
SpecStop2 ==
    InitStop /\ [][NextStop2]_vars /\ WF_vars(StopStep(1)) /\ WF_vars(StopStep(2))

\* the Registry files the reconciliation can find for a workspace: none,
\* junk, the record of pid 1 created at time 1, a record of pid 1 with
\* another start time, the record of a pid that is gone
RecFiles ==
    {Absent, TextFile(<<"x">>), JsonFile({1}, "tauri", {1}),
     JsonFile({1}, "tauri", {1 + IdentityTolerance + 1}), JsonFile({MaxPid}, "tauri", {1})}

\* the application starts on a run directory with any lock markers and any
\* of these files for the three workspaces; pid 1 is a backend or nothing
InitReconcile ==
    /\ now = 1
    /\ \E p1 \in {NoProc, Process(1, "a", FALSE)} :
          proc = [p \in Pids |-> IF p = 1 THEN p1 ELSE NoProc]
    /\ pidfile \in [Workspaces -> RecFiles]
    /\ lock \in [Workspaces -> BOOLEAN]
    /\ handle = {}
    /\ mutex = {}
    /\ phase = "boot"
    /\ boots = 1
    /\ rec = RecStart
    /\ th = [t \in Threads |-> Fresh("none", "a")]
    /\ fin = 0
    /\ fout = 0

\* startup_reconcile alone: no command, no process starts or exits
SpecReconcile == InitReconcile /\ [][ReconcileStep]_vars

----------------------------------------------------------------------------
(* The specification of read_pid_file and is_pid_file_valid as functions *)

\* the whitespace a legacy file can carry around its number
Paddings == {<<>>, <<" ">>, <<"\n">>}

\* the process a pid of the file can name: none, one created at time c
ReadProcs == {NoProc} \cup {Process(c, "none", FALSE) : c \in {1, MaxTime}}

\* a positive pid n, the padding of the legacy file, and a process table
InitRead ==
    /\ now = MaxTime
    /\ proc \in [Pids -> ReadProcs]
    /\ pidfile = [w \in Workspaces |-> Absent]
    /\ lock = [w \in Workspaces |-> FALSE]
    /\ handle = {}
    /\ mutex = {}
    /\ phase = "ready"
    /\ boots = 1
    /\ rec = [RecStart EXCEPT !.pc = "check"]
    /\ th = [t \in Threads |-> Fresh("none", "a")]
    /\ fin \in [n : 1..MaxBare, lead : Paddings, trail : Paddings]
    /\ fout = [pc |-> "start", bare |-> {}, json |-> {}, valid |-> FALSE, running |-> FALSE]

\* read_pid_file of the file that holds the bare integer n, and of the file
\* that holds {pid: n, started_by: "tauri", started_at: 0}
ReadBoth ==
    /\ fout.pc = "start"
    /\ fout' = [fout EXCEPT
                  !.pc = "read",
                  !.bare = read_pid_file(TextFile(fin.lead \o to_string(fin.n) \o fin.trail)),
                  !.json = read_pid_file(pid_file_json(fin.n, "tauri", 0))]
    /\ UNCHANGED <<now, proc, pidfile, lock, handle, mutex, phase, boots, rec, th, fin>>

\* is_pid_file_valid of what the legacy file gave, next to is_pid_running
ValidateBare ==
    /\ fout.pc = "read" /\ fout.bare # {}
    /\ \E c \in get_process_create_time((CHOOSE d \in fout.bare : TRUE).pid) :
          fout' = [fout EXCEPT
                     !.pc = "valid",
                     !.valid = is_pid_file_valid(CHOOSE d \in fout.bare : TRUE, c),
                     !.running = is_pid_running((CHOOSE d \in fout.bare : TRUE).pid)]
    /\ UNCHANGED <<now, proc, pidfile, lock, handle, mutex, phase, boots, rec, th, fin>>

NextRead == ReadBoth \/ ValidateBare

SpecRead == InitRead /\ [][NextRead]_vars

----------------------------------------------------------------------------
(* openakita_check_pid_alive next to openakita_service_status *)

\* openakita_check_pid_alive(w): the child of this workspace is asked with
\* try_wait (which reaps it once it has exited, the handle stays); without
\* such a handle a record is alive when is_pid_running(data.pid); fout is
\* the set of what was returned
CheckAlive(w) ==
    /\ phase = "ready" /\ Idle(1) /\ mutex = {} /\ fout = {}
    /\ IF ManagedFor(w)
       THEN /\ fout' = {proc[TheHandle.pid].st = "run"}
            /\ proc' = IF proc[TheHandle.pid].st = "run" THEN proc
                       ELSE [proc EXCEPT ![TheHandle.pid] = NoProc]
       ELSE /\ fout' = {\E data \in read_pid_file(pidfile[w]) :
                            is_pid_running(data.pid)}
            /\ UNCHANGED proc
    /\ UNCHANGED <<now, pidfile, lock, handle, mutex, phase, boots, rec, th, fin>>

\* what pid 1 can be: nothing, a backend of workspace a (of an earlier
\* supervisor, or the child of this one, running or exited), or an
\* unrelated process created long after the records were written
AliveProcs ==
    {NoProc, Process(1, "a", FALSE), Process(1, "a", TRUE),
     [Process(1, "a", TRUE) EXCEPT !.st = "zombie"],
     Process(MaxTime, "none", FALSE)}

\* the supervisor serves commands; MANAGED_CHILD is empty or holds its
\* child (pid 1 for workspace a, pid 2 for workspace b); the Registry file
\* of a is any of InitFiles
InitAlive ==
    /\ now = MaxTime
    /\ \E p1 \in AliveProcs, h \in {{}, {"a"}, {"b"}}, z \in {"run", "zombie"} :
          /\ (h = {"a"}) => p1.child
          /\ (h # {"a"}) => ~p1.child
          /\ proc = [p \in Pids |->
                       IF p = 1 THEN p1
                       ELSE IF h = {"b"} THEN [Process(1, "b", TRUE) EXCEPT !.st = z]
                       ELSE NoProc]
          /\ handle = {[ws |-> w, pid |-> IF w = "a" THEN 1 ELSE 2] : w \in h}
    /\ \E f \in InitFiles : pidfile = [w \in Workspaces |-> IF w = "a" THEN f ELSE Absent]
    /\ lock = [w \in Workspaces |-> FALSE]
    /\ mutex = {}
    /\ phase = "ready"
    /\ boots = 1
    /\ rec = [RecStart EXCEPT !.pc = "check"]
    /\ th = [t \in Threads |-> Fresh("none", "a")]
    /\ fin = 0
    /\ fout = {}

\* openakita_check_pid_alive, then openakita_service_status, of the same
\* workspace with nothing happening in between
NextAlive ==
    \/ \E w \in CallWs : CheckAlive(w)
    \/ (fout # {} /\ StatusStep(1))

SpecAlive == InitAlive /\ [][NextAlive]_vars

----------------------------------------------------------------------------
(* The specification of is_pid_file_valid as a function *)

\* what a pid can be: no process, a process created at any time of the
\* clock, a child that has exited and was not waited for
ValidProcs ==
    {NoProc} \cup {Process(c, "none", FALSE) : c \in 0..MaxTime}
        \cup {[Process(1, "a", TRUE) EXCEPT !.st = "zombie"]}

\* fin: a record, of a pid of the process table or of a pid beyond it, with
\* any start time.  fout.create: what get_process_create_time returned.
\* fout.valid: what is_pid_file_valid returned.
InitValid ==
    /\ now = MaxTime
    /\ proc \in [Pids -> ValidProcs]
    /\ pidfile = [w \in Workspaces |-> Absent]
    /\ lock = [w \in Workspaces |-> FALSE]
    /\ handle = {}
    /\ mutex = {}
    /\ phase = "ready"
    /\ boots = 1
    /\ rec = [RecStart EXCEPT !.pc = "check"]
    /\ th = [t \in Threads |-> Fresh("none", "a")]
    /\ fin \in [pid : Pids \cup {MaxBare}, started_at : 0..MaxTime]
    /\ fout = [pc |-> "start", create |-> {}, valid |-> FALSE]

\* is_pid_file_valid(&data)
Validate ==
    /\ fout.pc = "start"
    /\ \E c \in get_process_create_time(fin.pid) :
          fout' = [pc |-> "done", create |-> c,
                   valid |-> is_pid_file_valid(PidFileData(fin.pid, "tauri", fin.started_at), c)]
    /\ UNCHANGED <<now, proc, pidfile, lock, handle, mutex, phase, boots, rec, th, fin>>

SpecValid == InitValid /\ [][Validate]_vars

----------------------------------------------------------------------------
(* The specification of list_service_pids after writes *)

\* an empty run directory.  fout.out: what list_service_pids returned
InitList ==
    /\ now = 1
    /\ proc = [p \in Pids |-> NoProc]
    /\ pidfile = [w \in Workspaces |-> Absent]
    /\ lock = [w \in Workspaces |-> FALSE]
    /\ handle = {}
    /\ mutex = {}
    /\ phase = "ready"
    /\ boots = 1
    /\ rec = [RecStart EXCEPT !.pc = "check"]
    /\ th = [t \in Threads |-> Fresh("none", "a")]
    /\ fin = 0
    /\ fout = [pc |-> "write", out |-> {}]

\* write_pid_file(w, pid, started_by), from fs::write's open to its end
WriteRecord(w, pid, started_by) ==
    /\ fout.pc = "write"
    /\ pidfile' = [pidfile EXCEPT ![w] = pid_file_json(pid, started_by, now)]
    /\ UNCHANGED <<now, proc, lock, handle, mutex, phase, boots, rec, th, fin, fout>>

\* let entries = list_service_pids()
ListAll ==
    /\ fout.pc = "write"
    /\ fout' = [pc |-> "done", out |-> list_service_pids]
    /\ UNCHANGED <<now, proc, pidfile, lock, handle, mutex, phase, boots, rec, th, fin>>

\* any writes, of positive pids and either owner, then the listing
NextList ==
    \/ \E w \in Workspaces, pid \in Pids, by \in {"tauri", "external"} : WriteRecord(w, pid, by)
    \/ ListAll

SpecList == InitList /\ [][NextList]_vars

----------------------------------------------------------------------------
(* write_pid_file and read_pid_file at the level of the file's bytes *)

\* the characters of a quoted key or string value
Quoted(s) == <<"\"">> \o s \o <<"\"">>

\* the characters of a started_by value
owner_chars(b) ==
    IF b = "tauri" THEN <<"t", "a", "u", "r", "i">>
    ELSE <<"e", "x", "t", "e", "r", "n", "a", "l">>

\* serde_json::to_string_pretty(&data): one field per line, indented by two
to_string_pretty(d) ==
    <<"{", "\n", " ", " ">> \o Quoted(<<"p", "i", "d">>) \o <<":", " ">>
        \o to_string(d.pid) \o <<",", "\n", " ", " ">>
        \o Quoted(<<"s", "t", "a", "r", "t", "e", "d", "_", "b", "y">>) \o <<":", " ">>
        \o Quoted(owner_chars(d.started_by)) \o <<",", "\n", " ", " ">>
        \o Quoted(<<"s", "t", "a", "r", "t", "e", "d", "_", "a", "t">>) \o <<":", " ">>
        \o to_string(d.started_at) \o <<"\n", "}">>

\* the records a Registry file of the model can hold
Records == [pid : 0..MaxBare, started_by : {"tauri", "external"}, started_at : 0..MaxTime]

\* a parser that takes the pid as soon as it has read digits after the key,
\* whether the document goes on or not
from_str_partial(text) ==
    {d \in Records : to_string_pretty(d) = text}
        \cup {PidFileData(p, default_started_by, 0) : p \in
                {q \in 0..MaxBare :
                    text = <<"{", "\n", " ", " ">> \o Quoted(<<"p", "i", "d">>)
                               \o <<":", " ">> \o to_string(q)}}

\* serde_json::from_str::<PidFileData>(text): the records whose document the
\* text is, {} being Err (a document that stops early or goes on after its
\* closing brace is no document)
from_str(text) == {d \in Records : to_string_pretty(d) = text}

\* the Registry file that holds the characters text
file_of(text) ==
    LET json == from_str(trim(text))
    IN  IF json # {}
        THEN LET d == CHOOSE x \in json : TRUE
             IN  JsonFile({d.pid}, d.started_by, {d.started_at})
        ELSE TextFile(text)

\* the files a write can find: none, a legacy file, the records of an
\* earlier start and of a command-line start
OldFiles ==
    {[exists |-> FALSE, txt |-> <<>>],
     [exists |-> TRUE, txt |-> <<"5">>],
     [exists |-> TRUE, txt |-> <<"1", "2", "\n">>],
     [exists |-> TRUE, txt |-> to_string_pretty(PidFileData(5, "external", 1))],
     [exists |-> TRUE, txt |-> to_string_pretty(PidFileData(MaxBare, "tauri", MaxTime))]}

\* fin: the file before the write, and the pid and the time of the write.
\* fout.file: the file.  fout.w: the writer's position.  fout.r: the
\* reader's position.  fout.buf: what the reader has read.  fout.res: what
\* read_pid_file returns.
InitWrite ==
    /\ now = MaxTime
    /\ proc = [p \in Pids |-> NoProc]
    /\ pidfile = [w \in Workspaces |-> Absent]
    /\ lock = [w \in Workspaces |-> FALSE]
    /\ handle = {}
    /\ mutex = {}
    /\ phase = "ready"
    /\ boots = 1
    /\ rec = [RecStart EXCEPT !.pc = "check"]
    /\ th = [t \in Threads |-> Fresh("none", "a")]
    /\ fin \in [old : OldFiles, pid : {1, MaxBare}, at : {1, MaxTime}]
    /\ fout = [file |-> fin.old, w |-> "open", r |-> "open", buf |-> <<>>, res |-> {}]

\* the record write_pid_file writes
NewData == PidFileData(fin.pid, "tauri", fin.at)

\* fs::write opens the file: it is created, or truncated
WriteOpen ==
    /\ fout.w = "open"
    /\ fout' = [fout EXCEPT !.file = [exists |-> TRUE, txt |-> <<>>], !.w = "bytes"]
    /\ UNCHANGED <<now, proc, pidfile, lock, handle, mutex, phase, boots, rec, th, fin>>

\* fs::write writes: the next bytes of the document reach the file
WriteBytes ==
    /\ fout.w = "bytes"
    /\ LET json == to_string_pretty(NewData)
           n == Len(fout.file.txt) + 1
       IN  fout' = [fout EXCEPT !.file.txt = SubSeq(json, 1, n),
                                !.w = IF n = Len(json) THEN "done" ELSE "bytes"]
    /\ UNCHANGED <<now, proc, pidfile, lock, handle, mutex, phase, boots, rec, th, fin>>

\* fs::read_to_string opens the file: no file is None
ReadOpen ==
    /\ fout.r = "open"
    /\ fout' = [fout EXCEPT !.r = IF fout.file.exists THEN "read" ELSE "done"]
    /\ UNCHANGED <<now, proc, pidfile, lock, handle, mutex, phase, boots, rec, th, fin>>

\* fs::read_to_string reads: the bytes the file holds behind what was read
\* so far; when there are none it is at the end, and read_pid_file parses
ReadMore ==
    /\ fout.r = "read"
    /\ LET have == Len(fout.buf)
           size == Len(fout.file.txt)
       IN  fout' = IF size > have
                   THEN [fout EXCEPT !.buf = fout.buf \o SubSeq(fout.file.txt, have + 1, size)]
                   ELSE [fout EXCEPT !.r = "done",
                                     !.res = read_pid_file(file_of(fout.buf))]
    /\ UNCHANGED <<now, proc, pidfile, lock, handle, mutex, phase, boots, rec, th, fin>>

\* one read_pid_file while one write_pid_file runs
NextWrite == WriteOpen \/ WriteBytes \/ ReadOpen \/ ReadMore

SpecWrite == InitWrite /\ [][NextWrite]_vars

----------------------------------------------------------------------------
(* The claims *)

\* C1: of two concurrent Start calls on one workspace at most one spawns a
\* fresh process: no start has spawned a child when another start of the
\* same workspace, in flight together with it, has spawned one too.
C1_OneSpawnPerRace ==
    \A t \in Threads : ~(th[t].op = "start" /\ th[t].spawned /\ th[t].rival)

\* C2: in every reachable state at most one live backend process spawned
\* for a workspace exists.
C2_OneLiveBackend ==
    \A w \in Workspaces : Cardinality({p \in Pids : Alive(p) /\ proc[p].ws = w}) <= 1

\* C3, as the spec states it: a status that validates a record whose live
\* pid was created more than the tolerance away from its nonzero started_at
\* goes on to remove the record (and to return running = false).
C3_StatusRejectsReusedPid ==
    [][\A t \in Threads :
          (/\ th[t].op = "status" /\ th[t].pc = "status_valid"
           /\ Reused(TheData(th[t]))
           /\ th'[t].op = "status" /\ th'[t].pc # "status_valid")
          => th'[t].pc = "status_rm"]_vars

\* C3, amended: when get_process_create_time returned the creation time of
\* the record's live pid and it is more than the tolerance away from the
\* nonzero started_at, Status sends nothing, touches no process, removes the
\* record and returns running = false.
C3_StatusRejectsSeenReuse ==
    [][\A t \in Threads :
          /\ (th'[t].op = "status" /\ th'[t].mism) =>
                /\ th'[t].acts = {}
                /\ th'[t].pc \in {"status_rm", "idle"}
                /\ (th'[t].pc = "idle" => th'[t].res = "not_running")
                /\ (th[t].pc = "status_rm" /\ th'[t].pc = "idle")
                      => pidfile'[th'[t].ws] = Absent
          /\ (th[t].op = "status" /\ th[t].pc \in {"status_valid", "status_rm"}
                /\ th'[t].op = "status" /\ th'[t] # th[t]) => proc' = proc]_vars

\* C3's case: a status has returned running = false for a record whose live
\* pid it saw to be of another creation time, and the record is gone
C3_Witness ==
    \E t \in Threads :
        /\ th[t].op = "status" /\ th[t].pc = "idle" /\ th[t].mism
        /\ th[t].res = "not_running" /\ pidfile[th[t].ws] = Absent

\* C4: a stop that read a record whose live pid was created more than the
\* tolerance away from its nonzero started_at sends neither the shutdown
\* request nor a termination signal.
C4_StopSparesReusedPid ==
    \A t \in Threads : (th[t].op = "stop" /\ th[t].mism) => th[t].acts = {}

C6_ImmediateExitReported ==
    [][\A t \in Threads :
          (/\ th[t].pc = "start_grace" /\ ~Alive(th[t].pid)
           /\ th'[t].op = "start" /\ th'[t].pc # "start_grace")
          => th'[t].pc = "start_clear"]_vars

C8_LegacyReadsAsRecord ==
    /\ fout.pc # "start" =>
          (fout.bare = fout.json /\ fout.bare = {PidFileData(fin.n, "tauri", 0)})
    /\ fout.pc = "valid" => fout.valid = fout.running

\* C8's case: a padded legacy file names a live process created more than
\* the tolerance after time 0, and the record is valid
C8_Witness ==
    /\ fout.pc = "valid" /\ fout.valid /\ fin.lead # <<>>
    /\ fin.n \in Pids /\ proc[fin.n].ctime > IdentityTolerance

\* C9: a start that took the lock has called release_start_lock exactly
\* once when it has returned and not before, and when no start is in flight
\* no lock marker exists.
C9_LockReleasedOnce ==
    /\ \A t \in Threads :
          (th[t].op = "start" /\ th[t].pc = "idle") =>
              th[t].rel = (IF th[t].acq THEN 1 ELSE 0)
    /\ \A t \in Threads : (th[t].op = "start" /\ th[t].pc # "idle") => th[t].rel = 0
    /\ (\A t \in Threads : ~(th[t].op = "start" /\ th[t].pc # "idle"))
          => \A w \in Workspaces : ~lock[w]

\* C9's case: a start that took the lock has failed with ImmediateExit, no
\* start is in flight and the marker is gone
C9_Witness ==
    /\ \E t \in Threads :
          /\ th[t].op = "start" /\ th[t].pc = "idle" /\ th[t].acq
          /\ th[t].res = "ImmediateExit" /\ ~lock[th[t].ws]
    /\ \A t \in Threads : th[t].pc = "idle"

\* C10: a stop that is about to return, or has returned, Stopped was told
\* to stop a process that has stopped executing.
C10_StoppedMeansDead ==
    \A t \in Threads :
        (/\ th[t].op = "stop"
         /\ \/ th[t].pc \in {"stop_rm", "stop_mrm"}
            \/ th[t].pc = "idle" /\ th[t].res = "not_running")
        => th[t].tdead

\* C10's case: a stop has sent a signal to the process of its record, the
\* pid is free again, and the stop is about to return Stopped
C10_Witness ==
    \E t \in Threads :
        /\ th[t].op = "stop" /\ th[t].pc = "stop_rm" /\ th[t].tdead
        /\ \E a \in th[t].acts : a.kind = "term" /\ ~is_pid_running(a.pid)

\* C11: a stop returns the error StopFailed only while the process of the
\* pid it was stopping is executing: at every step in which a stop returns
\* StopFailed, that pid is the pid of a live process.
C11_ErrorMeansAlive ==
    [][\A t \in Threads :
          (/\ th[t].op = "stop" /\ th[t].pc # "idle"
           /\ th'[t].op = "stop" /\ th'[t].pc = "idle" /\ th'[t].res = "StopFailed")
          => Alive(th[t].pid)]_vars

\* C12: when a stop returns, with Ok or with an error, MANAGED_CHILD holds
\* no child of its workspace, and the Registry file of the workspace holds a
\* record only if the record's pid is the pid of a live process.
C12_StopLeavesNoDeadRecord ==
    [][\A t \in Threads :
          (/\ th[t].op = "stop" /\ th[t].pc # "idle"
           /\ th'[t].op = "stop" /\ th'[t].pc = "idle")
          => /\ \A h \in handle' : h.ws # th'[t].ws
             /\ \A d \in read_pid_file(pidfile'[th'[t].ws]) :
                   d.pid \in Pids /\ proc'[d.pid].st = "run"]_vars

C14_QuitSparesExternal ==
    [][\A t \in Threads :
          (th'[t].op = "quit" /\ th[t].op \in {"quit", "none"}) =>
              \A a \in th'[t].acts \ th[t].acts : ~ExternalLive(a.pid)]_vars

\* C15: of the starts that called try_acquire_start_lock for a workspace and
\* have not released since, at most one got true, and the marker exists
\* while it holds the lock; a start that calls try_acquire_start_lock while
\* the marker exists gets false (it returns StartRace without the lock) and
\* the marker stays.
C15_LockAtomic ==
    /\ [](\A w \in Workspaces :
             LET holders == {t \in Threads : th[t].held /\ th[t].ws = w}
             IN  Cardinality(holders) <= 1 /\ (holders # {} => lock[w]))
    /\ [][\A t \in Threads :
             (/\ th[t].op = "start" /\ th[t].pc = "start_lock" /\ lock[th[t].ws]
              /\ th'[t].pc # "start_lock")
             => /\ th'[t].pc = "idle" /\ th'[t].res = "StartRace"
                /\ ~th'[t].acq /\ ~th'[t].held
                /\ lock' = lock]_vars

\* C15's case: one start holds the lock of a workspace, and another start of
\* that workspace has called try_acquire_start_lock meanwhile and failed
C15_Witness ==
    \E t, u \in Threads :
        /\ t # u /\ th[t].held /\ lock[th[t].ws]
        /\ th[u].op = "start" /\ th[u].ws = th[t].ws
        /\ th[u].pc = "idle" /\ th[u].res = "StartRace"

\* C16: a start called while MANAGED_CHILD holds a running child of the
\* workspace returns running with the child's pid in that one step; a start
\* called while MANAGED_CHILD holds no child of the workspace and the Registry
\* holds a record that is_pid_file_valid accepts goes, for as long as that
\* is so, from the call to the read, to the validation, to running with the
\* record's pid.  None of these steps changes a process, a Registry file, a
\* lock marker or MANAGED_CHILD, and the start returns without having taken
\* the lock or spawned (a start that cannot make the run directory fails
\* before all that, without effect either).
C16_RunningStartIsNoOp ==
    [][\A t \in Threads :
          LET w == th'[t].ws
              d == read_pid_file(pidfile[w])
              p == (CHOOSE x \in d : TRUE).pid
              calls == th[t].pc = "idle" /\ th'[t] # th[t] /\ th'[t].op = "start"
              steps == th'[t].pc # th[t].pc /\ th[t].op = "start" /\ th'[t].op = "start"
              kept == /\ proc' = proc /\ pidfile' = pidfile
                      /\ handle' = handle /\ lock' = lock
              runs(q) == /\ th'[t].pc = "idle" /\ th'[t].res = "running"
                         /\ th'[t].rpid = q
                         /\ ~th'[t].spawned /\ ~th'[t].acq /\ th'[t].rel = 0
              fails == th'[t].pc = "idle" /\ th'[t].res = "RunDirFailed"
              valid == /\ d # {}
                       /\ \A c \in get_process_create_time(p) :
                             is_pid_file_valid(CHOOSE x \in d : TRUE, c)
          IN  /\ (calls /\ ManagedFor(w) /\ proc[TheHandle.pid].st = "run")
                    => ((runs(TheHandle.pid) \/ fails) /\ kept)
              /\ (~ManagedFor(w) /\ valid) =>
                    /\ calls => ((th'[t].pc = "start_read" \/ fails) /\ kept)
                    /\ (steps /\ th[t].pc = "start_read")
                          => (th'[t].pc = "start_valid" /\ th'[t].data = d /\ kept)
                    /\ (steps /\ th[t].pc = "start_valid" /\ th[t].data = d)
                          => (runs(p) /\ kept)]_vars

\* C16's case: a start has returned running with the pid of the running
\* child that MANAGED_CHILD holds, without spawning
C16_Witness ==
    \E t \in Threads :
        /\ th[t].op = "start" /\ th[t].pc = "idle" /\ th[t].res = "running"
        /\ ~th[t].spawned /\ ~th[t].acq
        /\ ManagedFor(th[t].ws) /\ Alive(TheHandle.pid) /\ th[t].rpid = TheHandle.pid

\* C17: a start that reaches try_acquire_start_lock (the service is not
\* already running) while the marker of its workspace exists returns
\* StartRace in that step, which changes no process, no Registry file, not
\* MANAGED_CHILD and no lock marker; and a start that has returned StartRace
\* has spawned nothing, has not taken the lock and has released nothing.
C17_StartRaceFailsFast ==
    /\ [](\A t \in Threads :
             (th[t].op = "start" /\ th[t].res = "StartRace") =>
                 (th[t].pc = "idle" /\ ~th[t].spawned /\ ~th[t].acq /\ th[t].rel = 0))
    /\ [][\A t \in Threads :
             (/\ th[t].op = "start" /\ th[t].pc = "start_lock" /\ lock[th[t].ws]
              /\ th'[t].op = "start" /\ th'[t].pc # "start_lock")
             => /\ th'[t].pc = "idle" /\ th'[t].res = "StartRace" /\ th'[t].rpid = 0
                /\ proc' = proc /\ pidfile' = pidfile
                /\ handle' = handle /\ lock' = lock]_vars

\* C17's case: a start has returned StartRace for a workspace that has no
\* backend, no record and no ManagedHandle, while the start that holds the
\* lock has not spawned yet
C17_Witness ==
    \E t, u \in Threads :
        /\ th[t].op = "start" /\ th[t].pc = "idle" /\ th[t].res = "StartRace"
        /\ th[u].op = "start" /\ th[u].pc = "start_spawn" /\ th[u].held
        /\ th[u].ws = th[t].ws /\ lock[th[t].ws]
        /\ handle = {} /\ read_pid_file(pidfile[th[t].ws]) = {}
        /\ \A p \in Pids : ~Alive(p)

\* C18: a read_pid_file that runs while write_pid_file replaces the file
\* returns the record the file held before, the record being written, or
\* None: never another record.
C18_ReadSeesOldNewOrNone ==
    fout.r = "done" =>
        \/ fout.res = {}
        \/ fout.res = {NewData}
        \/ fin.old.exists /\ fout.res = read_pid_file(file_of(fin.old.txt))

\* C18's case: the read met the file while the write was under way, after
\* the digits of the new pid and before the closing brace, and returned None
\* where the file held a record before and holds one after
C18_Witness ==
    /\ fout.r = "done" /\ fout.w = "done" /\ fout.res = {}
    /\ fin.old.exists /\ read_pid_file(file_of(fin.old.txt)) # {}
    /\ Len(fout.buf) > 12 /\ Len(fout.buf) < Len(fout.file.txt)

\* C19: a stop makes at most one shutdown request, fewer than 26 polls of
\* the graceful wait and fewer than 11 polls of the forced-kill wait, and
\* every stop in flight returns, Stopped or StopFailed.
C19_StopTerminates ==
    /\ [](\A t \in Threads :
             th[t].op = "stop" =>
                 /\ Cardinality({a \in th[t].acts : a.kind = "shutdown"}) <= 1
                 /\ th[t].pc = "g_wait" => th[t].i < GracefulPolls
                 /\ th[t].pc = "k_wait" => th[t].i < KillPolls)
    /\ \A t \in Threads :
          (th[t].op = "stop" /\ th[t].pc # "idle")
              ~> (th[t].pc = "idle" /\ th[t].res \in {"not_running", "StopFailed"})

\* C20: of two stops of one workspace in flight together, each returns; one
\* that returns when the process of its pid has stopped executing returns
\* Stopped; and when both have returned and no backend of the workspace is
\* executing, the workspace has no record and no ManagedHandle.
C20_OverlappingStopsConverge ==
    /\ [][\A t, u \in Threads :
             (/\ t # u
              /\ th[t].op = "stop" /\ th[t].pc # "idle"
              /\ th[u].op = "stop" /\ th[u].pc # "idle" /\ th[u].ws = th[t].ws
              /\ th'[t].op = "stop" /\ th'[t].pc = "idle"
              /\ ~Alive(th[t].pid))
             => th'[t].res = "not_running"]_vars
    /\ [](\A w \in Workspaces :
             (/\ \A t \in Threads : th[t].op = "stop" /\ th[t].ws = w /\ th[t].pc = "idle"
              /\ \A p \in Pids : ~(Alive(p) /\ proc[p].ws = w))
             => (~ManagedFor(w) /\ read_pid_file(pidfile[w]) = {}))
    /\ \A t \in Threads :
          (th[t].op = "stop" /\ th[t].pc # "idle") ~> (th[t].pc = "idle")

\* C21: no start spawns a backend for a workspace while a service answers
\* on the port of that workspace: at every step in which a start's
\* cmd.spawn() gives a child, no backend of the workspace is executing.
C21_NoSpawnWhileAnswering ==
    [][\A t \in Threads :
          (th[t].pc = "start_spawn" /\ th'[t].pc = "start_write")
          => ~Answering(th[t].ws)]_vars

\* the place of a step of the stop sequence in the order Running,
\* GracefulRequested, GracefulWait, ForceKillRequested, ForceKillWait,
\* terminal (the read of the record comes before them all)
StopRank(pc) ==
    CASE pc = "stop_read" -> 0
      [] pc = "g_check" -> 1
      [] pc = "g_post" -> 2
      [] pc = "g_wait" -> 3
      [] pc \in {"g_check2", "g_kill"} -> 4
      [] pc = "k_wait" -> 5
      [] OTHER -> 6

\* C22: a stop goes through the sequence in the order Running,
\* GracefulRequested, GracefulWait, ForceKillRequested, ForceKillWait,
\* terminal, never backwards; it sends a termination signal (kill_pid, or
\* child.kill() on the managed path) only to the pid it has sent the shutdown
\* request for, and only in the step after a check in which is_pid_running
\* was true; and it enters the graceful wait only from the request, when a
\* 2xx came back.
C22_StopOrder ==
    /\ [](\A t \in Threads :
             th[t].op = "stop" =>
                 /\ \A a \in th[t].acts :
                       a.kind \in {"term", "kill"} =>
                           [kind |-> "shutdown", pid |-> a.pid] \in th[t].acts
                 /\ th[t].pc = "g_wait" => th[t].api_ok)
    /\ [][\A t \in Threads :
             (th[t].op = "stop" /\ th[t].pc # "idle" /\ th'[t].op = "stop") =>
                 /\ th'[t].pc # "idle" => StopRank(th'[t].pc) >= StopRank(th[t].pc)
                 /\ (th'[t].pc = "g_wait" /\ th[t].pc # "g_wait")
                       => (th[t].pc = "g_post" /\ th'[t].api_ok)
                 /\ (th'[t].pc = "g_kill" /\ th[t].pc # "g_kill")
                       => (th[t].pc = "g_check2" /\ is_pid_running(th[t].pid))
                 /\ \A a \in th'[t].acts \ th[t].acts :
                       /\ a.pid = th[t].pid
                       /\ a.kind = "shutdown" => th[t].pc = "g_post"
                       /\ a.kind = "term" => th[t].pc = "g_kill"
                       /\ a.kind = "kill" =>
                             (th[t].pc = "stop_mkill" /\ is_pid_running(th[t].pid))]_vars

\* C22's case: a stop whose shutdown request was not acknowledged has
\* skipped the graceful wait, has sent the termination signal to the process
\* it found alive, and polls for its exit
C22_Witness ==
    \E t \in Threads :
        /\ th[t].op = "stop" /\ th[t].pc = "k_wait" /\ ~th[t].api_ok
        /\ [kind |-> "shutdown", pid |-> th[t].pid] \in th[t].acts
        /\ [kind |-> "term", pid |-> th[t].pid] \in th[t].acts

\* C23: a stop whose shutdown request got no 2xx goes from the request to
\* the check before the forced termination, without the graceful wait and
\* without returning; from that check it goes to kill_pid if the pid is
\* running; and when it returns from the Registry path it returns StopFailed
\* if the pid is running at that moment and Stopped if it is not.
C23_FailedRequestIsNoFailure ==
    [][\A t \in Threads :
          (/\ th[t].op = "stop" /\ th[t].pc # "idle" /\ th'[t].op = "stop"
           /\ ~th'[t].api_ok /\ th'[t].pc # th[t].pc) =>
              /\ th[t].pc = "g_post" => th'[t].pc = "g_check2"
              /\ th[t].pc = "g_check2" =>
                    th'[t].pc = (IF is_pid_running(th[t].pid) THEN "g_kill" ELSE "g_final")
              /\ (/\ ~th[t].managed /\ th'[t].pc = "idle"
                  /\ [kind |-> "shutdown", pid |-> th[t].pid] \in th[t].acts)
                    => (th'[t].res = "StopFailed" <=> is_pid_running(th[t].pid))]_vars

\* the record is one that is_pid_file_valid accepts, with a result that
\* get_process_create_time can give
IdentityValid(d) == \E c \in get_process_create_time(d.pid) : is_pid_file_valid(d, c)

\* C24: when startup_reconcile has completed, with nothing else running, no
\* lock marker exists and every record the Registry still holds is
\* identity-valid; and no step of the pass removes a record that is
\* identity-valid, or changes a process.
C24_ReconcileCleans ==
    /\ [](phase = "ready" =>
             /\ \A w \in Workspaces : ~lock[w]
             /\ \A w \in Workspaces : \A d \in read_pid_file(pidfile[w]) : IdentityValid(d))
    /\ [][/\ proc' = proc
          /\ \A w \in Workspaces : \A d \in read_pid_file(pidfile[w]) :
                (\A c \in get_process_create_time(d.pid) : is_pid_file_valid(d, c))
                   => pidfile'[w] = pidfile[w]]_vars

\* C25: the supervisor goes from its start to the reconciliation and from
\* the reconciliation to serving, and through nothing else, so the pass runs
\* once; when it serves, the pass has gone through all its entries; every
\* step of the pass is taken while setup has not come to its auto-start and
\* no command has been called; and setup's auto-start, its thread's start
\* and every start, status and stop are only there when the pass is done.
C25_ReconcileOnceFirst ==
    /\ [](/\ phase = "ready" => (rec.pc = "check" /\ rec.entries = {})
          /\ \A t \in Threads : th[t].op # "none" => phase = "ready")
    /\ [][/\ phase' # phase =>
                \/ phase = "boot" /\ phase' = "reconcile"
                \/ phase = "reconcile" /\ phase' = "ready"
          /\ (rec' # rec \/ phase' # phase) =>
                (th' = th /\ \A t \in Threads : th[t].op = "none")
          /\ (th' # th /\ \E t \in Threads : th[t].op = "none" /\ th'[t].op # "none")
                => (phase = "ready" /\ rec' = rec /\ phase' = phase)]_vars

\* C25's case: the pass has removed a lock marker and a record, after it
\* the auto-start's thread has spawned the backend and returned running, and
\* a status has been served
C25_Witness ==
    /\ phase = "ready" /\ rec.hadlock # {} /\ rec.dead # {}
    /\ th[AutoThread].op = "start" /\ th[AutoThread].pc = "idle"
    /\ th[AutoThread].res = "running" /\ th[AutoThread].spawned
    /\ th[1].op = "status" /\ th[1].pc = "idle"

\* C26: is_pid_file_valid is true exactly when the pid is running and the
\* start time is 0, or the creation time is not available, or the two times
\* are at most 5 seconds apart; a difference of 5 is valid and a difference
\* of 6 is not, whichever of the two times is the later one.
C26_IdentityValidFormula ==
    fout.pc = "done" =>
        LET s == fin.started_at
            known == fout.create # {}
            c == CHOOSE x \in fout.create : TRUE
        IN  /\ fout.valid <=>
                  /\ is_pid_running(fin.pid)
                  /\ \/ s = 0
                     \/ ~known
                     \/ (s - c <= 5 /\ c - s <= 5)
            /\ (is_pid_running(fin.pid) /\ s # 0 /\ known) =>
                  /\ (s - c = 5 \/ c - s = 5) => fout.valid
                  /\ (s - c = 6 \/ c - s = 6) => ~fout.valid

\* C26's case: the record's start time is exactly 5 seconds before the
\* creation time of its running pid, and the record is valid
C26_Witness ==
    /\ fout.pc = "done" /\ fout.valid /\ fin.started_at # 0
    /\ fout.create = {fin.started_at + 5}

\* the file holds pid 0, as a record or as a bare integer, or holds neither
\* a record nor a positive integer (digits, after "+" or not)
NoRecord(f) ==
    \/ f.k = "json" /\ (f.pid = {} \/ f.pid = {0})
    \/ /\ f.k = "text"
       /\ LET all == trim(f.txt)
              body == IF all # <<>> /\ Head(all) = "+" THEN Tail(all) ELSE all
          IN  \/ body = <<>>
              \/ \E i \in 1..Len(body) : body[i] \notin Digits
              \/ fold_digits(body, 0) = 0

\* C27: read_pid_file of a file that holds pid 0 or holds neither a record
\* nor a positive integer is None; the step of a start, a status or a stop
\* that reads such a file has the outcome it has for an absent file (the
\* start goes on to the lock, the status returns running = false, the stop
\* goes on to return Stopped without a pid to stop) and changes nothing;
\* and no command holds, signals or returns pid 0.
C27_PidZeroIsNoRecord ==
    /\ [](/\ \A w \in Workspaces : NoRecord(pidfile[w]) => read_pid_file(pidfile[w]) = {}
          /\ \A h \in handle : h.pid # 0
          /\ \A t \in Threads :
                /\ \A d \in th[t].data : d.pid # 0
                /\ \A a \in th[t].acts : a.pid # 0
                /\ th[t].res = "running" => th[t].rpid # 0
                /\ th[t].pc \in {"g_check", "g_post", "g_wait", "g_check2", "g_kill",
                                 "k_wait", "g_final", "stop_mkill", "stop_mwait"}
                      => th[t].pid # 0)
    /\ [][\A t \in Threads :
             (NoRecord(pidfile[th[t].ws]) /\ th'[t] # th[t]) =>
                 /\ th[t].pc = "start_read" =>
                       /\ th'[t] = [th[t] EXCEPT !.pc = "start_lock"]
                       /\ UNCHANGED <<proc, pidfile, lock, handle>>
                 /\ th[t].pc = "status_read" =>
                       /\ th'[t].pc = "idle" /\ th'[t].res = "not_running" /\ th'[t].rpid = 0
                       /\ UNCHANGED <<proc, pidfile, lock, handle>>
                 /\ th[t].pc = "stop_read" =>
                       /\ th'[t].pc = "stop_rm" /\ th'[t].pid = 0 /\ th'[t].acts = {}
                       /\ UNCHANGED <<proc, pidfile, lock, handle>>]_vars

\* C27's case: a stop has read a file that holds the bare integer 0, has
\* sent nothing and is about to return Stopped, while pid 1 is running
C27_Witness ==
    \E t \in Threads :
        /\ th[t].op = "stop" /\ th[t].pc = "stop_rm" /\ th[t].pid = 0 /\ th[t].acts = {}
        /\ pidfile[th[t].ws] = TextFile(<<"0">>)
        /\ Alive(1)

\* C28: after any writes of records with positive pids and no removal,
\* list_service_pids returns one entry for each workspace that was written,
\* with that workspace's id, the pid and the started_by last written for it
\* and the path of its Registry file, and nothing else.
C28_ListRoundTrip ==
    fout.pc = "done" =>
        fout.out =
            {[workspace_id |-> w,
              pid |-> CHOOSE p \in pidfile[w].pid : TRUE,
              pid_file |-> service_pid_file(w),
              started_by |-> pidfile[w].by] :
                w \in {x \in Workspaces : pidfile[x] # Absent}}

\* C29: at the step in which a start that has spawned returns running, the
\* Registry file of its workspace holds a record with the returned pid and
\* started_by = "tauri", and MANAGED_CHILD holds that workspace and that
\* pid; the record is in the file while the start is about to store the
\* handle and from then on, the handle is not stored before, and it is
\* stored when the grace sleep begins.
C29_RunningMeansRegistered ==
    /\ [][\A t \in Threads :
             (/\ th[t].op = "start" /\ th[t].pc # "idle"
              /\ th'[t].op = "start" /\ th'[t].pc = "idle"
              /\ th'[t].res = "running" /\ th'[t].spawned)
             => /\ th'[t].rpid = th[t].pid
                /\ \E d \in read_pid_file(pidfile'[th[t].ws]) :
                      d.pid = th'[t].rpid /\ d.started_by = "tauri"
                /\ handle' = {[ws |-> th[t].ws, pid |-> th'[t].rpid]}]_vars
    /\ [](\A t \in Threads :
             LET here == [ws |-> th[t].ws, pid |-> th[t].pid]
             IN  /\ th[t].pc \in {"start_write", "start_write2", "start_store"}
                       => here \notin handle
                 /\ th[t].pc \in {"start_store", "start_grace"}
                       => \E d \in read_pid_file(pidfile[th[t].ws]) :
                             d.pid = th[t].pid /\ d.started_by = "tauri"
                 /\ th[t].pc = "start_grace" => handle = {here})

\* C29's case: a start has spawned a backend and returned running with its
\* pid; the backend runs, the record and the handle name it
C29_Witness ==
    \E t \in Threads :
        /\ th[t].op = "start" /\ th[t].pc = "idle" /\ th[t].res = "running"
        /\ th[t].spawned /\ Alive(th[t].rpid)
        /\ handle = {[ws |-> th[t].ws, pid |-> th[t].rpid]}
        /\ \E d \in read_pid_file(pidfile[th[t].ws]) :
              d.pid = th[t].rpid /\ d.started_by = "tauri"

\* the lock marker of workspace w exists and no start in flight holds it
Leaked(w) == lock[w] /\ \A t \in Threads : ~(th[t].held /\ th[t].ws = w)

\* C30: a lock marker is removed only by the first step of
\* startup_reconcile or by the return of the start that took it; a start
\* that calls try_acquire_start_lock while a leaked marker of its workspace
\* exists returns StartRace and leaves the marker; and while the marker is
\* leaked, every start of the workspace that has returned has returned
\* StartRace, or running without a spawn, or could not make the run
\* directory, and none has taken the lock or spawned.
C30_LeakedLockStays ==
    /\ [][/\ \A w \in Workspaces :
                (lock[w] /\ ~lock'[w]) =>
                    \/ phase = "boot" /\ phase' = "reconcile"
                    \/ \E t \in Threads :
                          /\ th[t].held /\ th[t].acq /\ th[t].ws = w
                          /\ th[t].pc = "start_release" /\ th'[t].pc = "idle"
          /\ \A t \in Threads :
                (/\ Leaked(th[t].ws) /\ th[t].op = "start" /\ th[t].pc = "start_lock"
                 /\ th'[t].op = "start" /\ th'[t].pc # "start_lock")
                => /\ th'[t].pc = "idle" /\ th'[t].res = "StartRace"
                   /\ lock' = lock]_vars
    /\ [](\A t \in Threads :
             (Leaked(th[t].ws) /\ th[t].op = "start" /\ th[t].pc = "idle") =>
                 /\ th[t].res \in {"StartRace", "running", "RunDirFailed"}
                 /\ ~th[t].spawned /\ ~th[t].acq)

\* C30's case: the marker of a workspace is leaked since before the
\* supervisor's reconciliation, the workspace has no backend, no record and
\* no handle, and a start of it has returned StartRace
C30_Witness ==
    \E t \in Threads :
        /\ phase = "ready" /\ boots = 1 /\ Leaked(th[t].ws)
        /\ th[t].op = "start" /\ th[t].pc = "idle" /\ th[t].res = "StartRace"
        /\ pidfile[th[t].ws] = Absent /\ handle = {}
        /\ \A p \in Pids : ~Alive(p)

\* thread t takes a step of a stop (its call, a step of it, or its return)
StopActs(t) ==
    /\ th'[t].op = "stop"
    /\ \/ th'[t].pc # th[t].pc
       \/ th'[t].i # th[t].i
       \/ th'[t].acts # th[t].acts

\* C31: no step of a stop of one workspace, taken while MANAGED_CHILD holds
\* the child of another workspace, changes the handle, the process of the
\* handle or the Registry file of the handle's workspace.
C31_StopLeavesOtherHandle ==
    [][\A t \in Threads :
          (StopActs(t) /\ handle # {} /\ TheHandle.ws # th'[t].ws) =>
              /\ handle' = handle
              /\ proc'[TheHandle.pid] = proc[TheHandle.pid]
              /\ pidfile'[TheHandle.ws] = pidfile[TheHandle.ws]]_vars

\* C32: a step of a stop that removes the Registry file of its workspace
\* removes no record whose pid is the pid of a live backend of that
\* workspace.
C32_StopSparesLiveRecord ==
    [][\A t \in Threads :
          (StopActs(t) /\ pidfile'[th'[t].ws] # pidfile[th'[t].ws]) =>
              \A d \in read_pid_file(pidfile[th'[t].ws]) :
                 ~(Alive(d.pid) /\ proc[d.pid].ws = th'[t].ws)]_vars

\* C33: when a start that has spawned a process returns an error, the
\* process is not alive, or the Registry file of the workspace holds a
\* record with its pid, or MANAGED_CHILD holds it.
C33_FailedStartLeavesNoOrphan ==
    [][\A t \in Threads :
          (/\ th[t].op = "start" /\ th[t].pc # "idle" /\ th[t].spawned
           /\ th'[t].op = "start" /\ th'[t].pc = "idle"
           /\ th'[t].res # "running")
          => \/ proc'[th[t].pid].st # "run"
             \/ \E d \in read_pid_file(pidfile'[th[t].ws]) : d.pid = th[t].pid
             \/ [ws |-> th[t].ws, pid |-> th[t].pid] \in handle']_vars

\* C34: where openakita_service_status is called in the state
\* openakita_check_pid_alive was called in, it returns running exactly when
\* openakita_check_pid_alive returned true.
C34_AliveAgreesWithStatus ==
    (fout # {} /\ th[1].op = "status" /\ th[1].pc = "idle") =>
        (fout = {TRUE} <=> th[1].res = "running")

\* the record in the Registry file of workspace w
TheRecord(w) == CHOOSE d \in read_pid_file(pidfile[w]) : TRUE

\* MANAGED_CHILD holds the child of a workspace other than w
ManagedForOther(w) == handle # {} /\ TheHandle.ws # w

C36_StopReachesOwnBackendOnly ==
    /\ [](\A t \in Threads :
             (th[t].op = "stop" /\ th[t].pc = "g_post") =>
                 \A p \in Listening(effective_port(read_workspace_api_port(th[t].ws))) :
                    p = th[t].pid /\ proc[p].ws = th[t].ws)
    /\ [](\A t \in Threads :
             (th[t].op = "stop" /\ th[t].pc = "g_kill" /\ Alive(th[t].pid)) =>
                 proc[th[t].pid].ws = th[t].ws)

\* C37: when openakita_stop_all_processes returns, no pid of the list it
\* returns is the pid of a live process, and every pid that the Registry
\* held with a live process at the call and whose process is not alive is
\* in the list.
C37_StopAllReturnsStopped ==
    [][\A t \in Threads :
          (th'[t].op = "stop_all" /\ th[t].pc # "idle" /\ th'[t].pc = "idle") =>
              /\ \A p \in fout' : proc'[p].st # "run"
              /\ \A p \in fin' : proc'[p].st # "run" => p \in fout']_vars

\* C38: at the final check of the quit handler the result is exit exactly
\* when no record of the Registry with started_by other than external
\* names a running pid and no process with the backend's signature is
\* found; otherwise the result is the event quit_failed.
C38_QuitExitsOnlyWhenClean ==
    [][\A t \in Threads :
          (th[t].op = "quit" /\ th[t].pc = "quit_confirm" /\ th'[t].pc = "quit_done") =>
              /\ th'[t].res \in {"exit", "quit_failed"}
              /\ th'[t].res = "exit" <=>
                    /\ \A w \in Workspaces : \A d \in read_pid_file(pidfile[w]) :
                          d.started_by = "external" \/ ~is_pid_running(d.pid)
                    /\ \A p \in Pids : ~(Signature(p) /\ is_pid_running(p))]_vars

====
